---------------------------- MODULE Spec2Model ----------------------------
(***************************************************************************)
(* Model of the bombahead-js GameHelpers engine (helpers.ts): walkability, *)
(* adjacency, BFS routing, blast / chain-reaction safety, nearest safe     *)
(* tile and nearest box, over one immutable GameState snapshot; of the     *)
(* sanitizer of client.ts; and of the message loop of run() over the       *)
(* WsClient of internal/ws-client.ts.                                      *)
(*                                                                         *)
(* A Position is a record [x, y]; a position key (posKey, the string       *)
(* "x,y") is the pair <<x, y>>; a nullable Position is a sequence of       *)
(* length 0 (null) or 1.  cells is addressed cells[y][x], rows and columns *)
(* numbered from 0 as in the source.                                       *)
(***************************************************************************)
EXTENDS Integers, Sequences, FiniteSets, TLC

VARIABLES
    field, bombs, explosions,   \* the GameState a GameHelpers object reads
    call, result,               \* the last call made and what it returned
    socket,                     \* WsClient.socket: none, or its readyState
    wire,                       \* the envelopes transmitted to the server
    notified,                   \* the listeners the last step called
    listening,                  \* the events the socket has a handler for
    userBot,                    \* the value handed to run()
    myId,                       \* run: let myId
    welcomed,                   \* the clientId of the last valid welcome
    received,                   \* the number of server messages so far
    heap,                       \* the GameState objects built so far
    invocations                 \* the onMessage calls that built a GameState

helperVars == <<field, bombs, explosions, call, result>>

clientVars ==
    <<socket, wire, notified, listening, userBot, myId, welcomed, received,
      heap, invocations>>

vars == <<helperVars, clientVars>>

(***************************************************************************)
(* enums.ts                                                                *)
(***************************************************************************)
AIR == "AIR"
WALL == "WALL"
BOX == "BOX"
CellType == {AIR, WALL, BOX}

MOVE_UP == "move_up"
MOVE_DOWN == "move_down"
MOVE_LEFT == "move_left"
MOVE_RIGHT == "move_right"
PLACE_BOMB == "place_bomb"
DO_NOTHING == "nothing"
Action == {MOVE_UP, MOVE_DOWN, MOVE_LEFT, MOVE_RIGHT, PLACE_BOMB, DO_NOTHING}

(***************************************************************************)
(* models.ts                                                               *)
(***************************************************************************)
Position(x, y) == [x |-> x, y |-> y]

\* a value that passed isValidPosition without being a Position instance
\* (an object with finite numbers x and y) has a coordinate with a fraction
fractional(pos) ==
    "tag" \in DOMAIN pos /\ (pos.props.x.half \/ pos.props.y.half)

\* the position of the Math.floor of both coordinates
floorOf(pos) ==
    IF "tag" \in DOMAIN pos THEN [x |-> pos.props.x.int, y |-> pos.props.y.int]
    ELSE pos

\* this.x === other.x && this.y === other.y: a number with a fraction equals
\* no whole number
equals(a, b) ==
    /\ ~fractional(a)
    /\ ~fractional(b)
    /\ floorOf(a).x = floorOf(b).x
    /\ floorOf(a).y = floorOf(b).y

Abs(n) == IF n < 0 THEN -n ELSE n

distanceTo(a, b) == Abs(a.x - b.x) + Abs(a.y - b.y)

\* the value of an optional read that found nothing (cells[y]?.[x])
UNDEFINED == "undefined"

\* a nullable Position: null
NULL == <<>>

(***************************************************************************)
(* JavaScript values of type unknown (arguments of the guarded queries,    *)
(* server payloads, results of the user's bot).  A value is a record with  *)
(* a tag; a finite number int + 1/2 * half keeps its integer part (its     *)
(* Math.floor) and whether a fraction follows; an object keeps its own     *)
(* properties as a function from property names to values.                 *)
(***************************************************************************)
JSUndefined == [tag |-> "undefined"]

JSNull == [tag |-> "null"]

JSBool(b) == [tag |-> "boolean", bool |-> b]

JSStr(s) == [tag |-> "string", str |-> s]

JSNum(i) == [tag |-> "number", kind |-> "finite", int |-> i, half |-> FALSE]

\* the number i + 0.5
JSHalf(i) == [tag |-> "number", kind |-> "finite", int |-> i, half |-> TRUE]

JSNaN == [tag |-> "number", kind |-> "NaN"]

JSInfinity == [tag |-> "number", kind |-> "Infinity"]

JSNegInfinity == [tag |-> "number", kind |-> "-Infinity"]

JSObj(props) == [tag |-> "object", props |-> props]

\* an array with the elements of the sequence items
JSArr(items) == [tag |-> "array", items |-> items]

JSFunc == [tag |-> "function"]

\* an object without own properties
NoProps == [k \in {} |-> JSUndefined]

\* typeof v
typeOf(v) == IF v.tag \in {"null", "array"} THEN "object" ELSE v.tag

\* Array.isArray(v)
isArray(v) == v.tag = "array"

\* ToBoolean(v), as in !v
truthy(v) ==
    CASE v.tag \in {"undefined", "null"} -> FALSE
      [] v.tag = "boolean" -> v.bool
      [] v.tag = "string" -> v.str # ""
      [] v.tag = "number" ->
            /\ v.kind # "NaN"
            /\ v.kind = "finite" => (v.int # 0 \/ v.half)
      [] OTHER -> TRUE

\* v.k for a value v that is neither null nor undefined: the own property of
\* an object, undefined for a property that is absent
get(v, k) ==
    IF v.tag = "object" /\ k \in DOMAIN v.props THEN v.props[k]
    ELSE JSUndefined

\* v == null (null or undefined), as tested by ?. and ??
nullish(v) == v.tag \in {"null", "undefined"}

\* v?.k
optGet(v, k) == IF nullish(v) THEN JSUndefined ELSE get(v, k)

\* Number.isFinite(v)
isFinite(v) == v.tag = "number" /\ v.kind = "finite"

\* Number.isNaN(v)
isNaN(v) == v.tag = "number" /\ v.kind = "NaN"

(***************************************************************************)
(* helpers.ts, private helpers                                             *)
(***************************************************************************)
posKey(pos) == <<pos.x, pos.y>>

\* pos is of type unknown.  A Position instance is the record [x, y] of two
\* integers; every other value is a JavaScript value as defined above.
isValidPosition(pos) ==
    IF "tag" \in DOMAIN pos
    THEN IF ~truthy(pos) \/ typeOf(pos) # "object" THEN FALSE
         ELSE /\ typeOf(get(pos, "x")) = "number"
              /\ typeOf(get(pos, "y")) = "number"
              /\ isFinite(get(pos, "x"))
              /\ isFinite(get(pos, "y"))
    ELSE /\ DOMAIN pos = {"x", "y"}
         /\ pos.x \in Int
         /\ pos.y \in Int

\* Faulty variant: the upper limits are inclusive.
inBounds_Inclusive(pos) ==
    /\ pos.x >= 0
    /\ pos.y >= 0
    /\ pos.x <= field.width
    /\ pos.y <= field.height

\* width and height are whole numbers, so a number with a fraction compares
\* with 0, width and height as its Math.floor does
inBounds(pos) ==
    /\ floorOf(pos).x >= 0
    /\ floorOf(pos).y >= 0
    /\ floorOf(pos).x < field.width
    /\ floorOf(pos).y < field.height

\* this.state.field.cells[pos.y]?.[pos.x]: an array has no element at an
\* index with a fraction
cellAt(pos) ==
    IF fractional(pos) THEN UNDEFINED
    ELSE IF floorOf(pos).y \in DOMAIN field.cells
    THEN IF floorOf(pos).x \in DOMAIN field.cells[floorOf(pos).y]
         THEN field.cells[floorOf(pos).y][floorOf(pos).x]
         ELSE UNDEFINED
    ELSE UNDEFINED

getAdjacentPositions(pos) ==
    << Position(pos.x, pos.y - 1),
       Position(pos.x + 1, pos.y),
       Position(pos.x, pos.y + 1),
       Position(pos.x - 1, pos.y) >>

actionBetween(from, to) ==
    IF to.x = from.x + 1 THEN MOVE_RIGHT
    ELSE IF to.x = from.x - 1 THEN MOVE_LEFT
    ELSE IF to.y = from.y + 1 THEN MOVE_DOWN
    ELSE MOVE_UP

(***************************************************************************)
(* isWalkable, getAdjacentWalkablePositions                                *)
(***************************************************************************)
\* Faulty variant: bombs do not block a tile.
isWalkable_IgnoringBombs(pos) ==
    IF ~isValidPosition(pos) THEN FALSE
    ELSE IF ~inBounds(pos) THEN FALSE
    ELSE ~(cellAt(pos) = WALL \/ cellAt(pos) = BOX)

isWalkable(pos) ==
    IF ~isValidPosition(pos) THEN FALSE
    ELSE IF ~inBounds(pos) THEN FALSE
    ELSE IF cellAt(pos) = WALL \/ cellAt(pos) = BOX THEN FALSE
    ELSE ~(\E i \in DOMAIN bombs : equals(bombs[i].pos, pos))

\* neighbors.filter((p) => this.isWalkable(p)): the walkable elements, in order
RECURSIVE filterWalkable(_)
filterWalkable(s) ==
    IF s = <<>> THEN <<>>
    ELSE IF isWalkable(Head(s)) THEN <<Head(s)>> \o filterWalkable(Tail(s))
    ELSE filterWalkable(Tail(s))

\* Faulty variant: the neighbours are taken in the order up, down, left, right.
getAdjacentWalkablePositions_UpDownLeftRight(pos) ==
    IF ~isValidPosition(pos) THEN <<>>
    ELSE filterWalkable(<< Position(pos.x, pos.y - 1), Position(pos.x, pos.y + 1),
                           Position(pos.x - 1, pos.y), Position(pos.x + 1, pos.y) >>)

getAdjacentWalkablePositions(pos) ==
    IF ~isValidPosition(pos) THEN <<>>
    ELSE filterWalkable(getAdjacentPositions(pos))

(***************************************************************************)
(* getNextActionTowards: BFS from start; firstSteps maps the key of every  *)
(* discovered tile to the action of the first edge of its BFS path.        *)
(***************************************************************************)
\* the for loop over the walkable neighbours of current (lines 71-89); done
\* is the early return at line 87
RECURSIVE routeExpand(_, _, _, _, _, _, _)
routeExpand(start, target, current, nexts, queue, visited, firstSteps) ==
    IF nexts = <<>>
    THEN [done |-> FALSE, action |-> DO_NOTHING, queue |-> queue,
          visited |-> visited, firstSteps |-> firstSteps]
    ELSE LET next == Head(nexts)
             key == posKey(next)
         IN IF key \in visited
            THEN routeExpand(start, target, current, Tail(nexts), queue,
                             visited, firstSteps)
            ELSE LET step == IF equals(current, start)
                             THEN actionBetween(current, next)
                             ELSE firstSteps[posKey(current)]
                     fs == (key :> step) @@ firstSteps
                 IN IF equals(next, target)
                    THEN [done |-> TRUE, action |-> fs[key],
                          queue |-> Append(queue, next),
                          visited |-> visited \cup {key}, firstSteps |-> fs]
                    ELSE routeExpand(start, target, current, Tail(nexts),
                                     Append(queue, next), visited \cup {key}, fs)

\* the while loop over the queue (lines 67-90)
RECURSIVE routeLoop(_, _, _, _, _)
routeLoop(start, target, queue, visited, firstSteps) ==
    IF queue = <<>> THEN DO_NOTHING
    ELSE LET current == Head(queue)
             r == routeExpand(start, target, current,
                              getAdjacentWalkablePositions(current),
                              Tail(queue), visited, firstSteps)
         IN IF r.done THEN r.action
            ELSE routeLoop(start, target, r.queue, r.visited, r.firstSteps)

\* Faulty variant: the greedy step toward the target, blind to obstacles.
getNextActionTowards_Greedy(start, target) ==
    IF ~isValidPosition(start) \/ ~isValidPosition(target) THEN DO_NOTHING
    ELSE IF equals(start, target) THEN DO_NOTHING
    ELSE IF ~isWalkable(start) \/ ~isWalkable(target) THEN DO_NOTHING
    ELSE IF Abs(target.x - start.x) >= Abs(target.y - start.y)
         THEN (IF target.x - start.x > 0 THEN MOVE_RIGHT ELSE MOVE_LEFT)
         ELSE (IF target.y - start.y > 0 THEN MOVE_DOWN ELSE MOVE_UP)

\* Faulty variant: the search starts although start is not walkable.
getNextActionTowards_AnyStart(start, target) ==
    IF ~isValidPosition(start) \/ ~isValidPosition(target) THEN DO_NOTHING
    ELSE IF equals(start, target) THEN DO_NOTHING
    ELSE IF ~isWalkable(target) THEN DO_NOTHING
    ELSE routeLoop(start, target, <<start>>, {posKey(start)}, <<>>)

getNextActionTowards(start, target) ==
    IF ~isValidPosition(start) \/ ~isValidPosition(target) THEN DO_NOTHING
    ELSE IF equals(start, target) THEN DO_NOTHING
    ELSE IF ~isWalkable(start) \/ ~isWalkable(target) THEN DO_NOTHING
    ELSE routeLoop(start, target, <<start>>, {posKey(start)}, <<>>)

(***************************************************************************)
(* getBlastTiles, getImminentExplosionBombs, isSafe                        *)
(***************************************************************************)
BlastRadius == 3

\* A Set<string> whose iteration order the code uses is the sequence of its
\* elements in insertion order: Set.prototype.add and Set.prototype.has
setAdd(s, k) == IF \E i \in DOMAIN s : s[i] = k THEN s ELSE Append(s, k)

setHas(s, k) == \E i \in DOMAIN s : s[i] = k

\* dirs (lines 246-251)
dirs == << <<0, -1>>, <<1, 0>>, <<0, 1>>, <<-1, 0>> >>

\* Faulty variant: a BOX is hit but does not stop the ray.
RECURSIVE blastRay_ThroughBoxes(_, _, _, _)
blastRay_ThroughBoxes(bomb, d, step, blast) ==
    IF step > BlastRadius THEN blast
    ELSE LET p == Position(bomb.pos.x + d[1] * step, bomb.pos.y + d[2] * step)
         IN IF ~inBounds(p) THEN blast
            ELSE IF cellAt(p) = WALL THEN blast
            ELSE blastRay_ThroughBoxes(bomb, d, step + 1, setAdd(blast, posKey(p)))

\* the inner for loop over step (lines 254-273) for one bomb and one direction
RECURSIVE blastRay(_, _, _, _)
blastRay(bomb, d, step, blast) ==
    IF step > BlastRadius THEN blast
    ELSE LET p == Position(bomb.pos.x + d[1] * step, bomb.pos.y + d[2] * step)
         IN IF ~inBounds(p) THEN blast
            ELSE IF cellAt(p) = WALL THEN blast
            ELSE IF cellAt(p) = BOX THEN setAdd(blast, posKey(p))
            ELSE blastRay(bomb, d, step + 1, setAdd(blast, posKey(p)))

\* the for loop over dirs (line 253)
RECURSIVE blastDirs(_, _, _)
blastDirs(bomb, ds, blast) ==
    IF ds = <<>> THEN blast
    ELSE blastDirs(bomb, Tail(ds), blastRay(bomb, Head(ds), 1, blast))

\* the for loop over bombs (line 243)
RECURSIVE blastBombs(_, _)
blastBombs(bs, blast) ==
    IF bs = <<>> THEN blast
    ELSE blastBombs(Tail(bs),
                    blastDirs(Head(bs), dirs, setAdd(blast, posKey(Head(bs).pos))))

getBlastTiles(bs) == blastBombs(bs, <<>>)

\* Faulty variant: of the bombs on one tile only the last of the list is
\* looked at.
RECURSIVE imminentSeed_LastOnTile(_, _, _)
imminentSeed_LastOnTile(bs, explodingKeys, queue) ==
    IF bs = <<>> THEN [explodingKeys |-> explodingKeys, queue |-> queue]
    ELSE IF /\ Head(bs).fuse <= 0
            /\ \A i \in 2 .. Len(bs) : bs[i].pos # Head(bs).pos
         THEN imminentSeed_LastOnTile(Tail(bs),
                                      explodingKeys \cup {posKey(Head(bs).pos)},
                                      Append(queue, Head(bs)))
         ELSE imminentSeed_LastOnTile(Tail(bs), explodingKeys, queue)

\* the first loop of getImminentExplosionBombs (lines 205-210)
RECURSIVE imminentSeed(_, _, _)
imminentSeed(bs, explodingKeys, queue) ==
    IF bs = <<>> THEN [explodingKeys |-> explodingKeys, queue |-> queue]
    ELSE IF Head(bs).fuse <= 0
         THEN imminentSeed(Tail(bs), explodingKeys \cup {posKey(Head(bs).pos)},
                           Append(queue, Head(bs)))
         ELSE imminentSeed(Tail(bs), explodingKeys, queue)

\* byKey (lines 216-219): a later bomb on a tile replaces an earlier one
RECURSIVE imminentByKey(_, _)
imminentByKey(bs, byKey) ==
    IF bs = <<>> THEN byKey
    ELSE imminentByKey(Tail(bs), (posKey(Head(bs).pos) :> Head(bs)) @@ byKey)

\* Faulty variant: a triggered bomb is marked but not queued, so it triggers
\* no further bomb.
RECURSIVE imminentTrigger_NoRequeue(_, _, _, _)
imminentTrigger_NoRequeue(keys, byKey, explodingKeys, queue) ==
    IF keys = <<>> THEN [explodingKeys |-> explodingKeys, queue |-> queue]
    ELSE LET key == Head(keys)
         IN IF key \notin DOMAIN byKey
            THEN imminentTrigger_NoRequeue(Tail(keys), byKey, explodingKeys, queue)
            ELSE imminentTrigger_NoRequeue(Tail(keys), byKey,
                                           explodingKeys \cup {key}, queue)

\* the for loop over the blast tiles of one dequeued bomb (lines 223-234)
RECURSIVE imminentTrigger(_, _, _, _)
imminentTrigger(keys, byKey, explodingKeys, queue) ==
    IF keys = <<>> THEN [explodingKeys |-> explodingKeys, queue |-> queue]
    ELSE LET key == Head(keys)
         IN IF key \notin DOMAIN byKey
            THEN imminentTrigger(Tail(keys), byKey, explodingKeys, queue)
            ELSE IF key \in explodingKeys
            THEN imminentTrigger(Tail(keys), byKey, explodingKeys, queue)
            ELSE imminentTrigger(Tail(keys), byKey, explodingKeys \cup {key},
                                 Append(queue, byKey[key]))

\* the while loop over the queue (lines 221-235)
RECURSIVE imminentLoop(_, _, _)
imminentLoop(byKey, explodingKeys, queue) ==
    IF queue = <<>> THEN explodingKeys
    ELSE LET r == imminentTrigger(getBlastTiles(<<Head(queue)>>), byKey,
                                  explodingKeys, Tail(queue))
         IN imminentLoop(byKey, r.explodingKeys, r.queue)

\* bombs.filter((bomb) => explodingKeys.has(posKey(bomb.pos))) (line 237)
RECURSIVE filterExploding(_, _)
filterExploding(bs, explodingKeys) ==
    IF bs = <<>> THEN <<>>
    ELSE IF posKey(Head(bs).pos) \in explodingKeys
         THEN <<Head(bs)>> \o filterExploding(Tail(bs), explodingKeys)
         ELSE filterExploding(Tail(bs), explodingKeys)

getImminentExplosionBombs ==
    LET seed == imminentSeed(bombs, {}, <<>>)
    IN IF seed.queue = <<>> THEN <<>>
       ELSE filterExploding(bombs,
                imminentLoop(imminentByKey(bombs, <<>>), seed.explodingKeys,
                             seed.queue))

\* Faulty variant: every bomb counts as exploding, whatever its fuse.
isSafe_AllBombs(pos) ==
    IF ~isValidPosition(pos) THEN FALSE
    ELSE IF ~inBounds(pos) THEN FALSE
    ELSE IF \E i \in DOMAIN explosions : equals(explosions[i], pos) THEN FALSE
    ELSE IF \E i \in DOMAIN bombs : equals(bombs[i].pos, pos) THEN FALSE
    ELSE ~setHas(getBlastTiles(bombs), posKey(pos))

isSafe(pos) ==
    IF ~isValidPosition(pos) THEN FALSE
    ELSE IF ~inBounds(pos) THEN FALSE
    ELSE IF \E i \in DOMAIN explosions : equals(explosions[i], pos) THEN FALSE
    ELSE IF \E i \in DOMAIN bombs : equals(bombs[i].pos, pos) THEN FALSE
    ELSE ~setHas(getBlastTiles(getImminentExplosionBombs), posKey(pos))

(***************************************************************************)
(* getNearestSafePosition, findNearestBox: BFS over walkable tiles          *)
(***************************************************************************)
\* Faulty variant: new tiles go to the front of the queue (depth first).
RECURSIVE bfsExpand_DepthFirst(_, _, _)
bfsExpand_DepthFirst(nexts, queue, visited) ==
    IF nexts = <<>> THEN [queue |-> queue, visited |-> visited]
    ELSE LET key == posKey(Head(nexts))
         IN IF key \in visited THEN bfsExpand_DepthFirst(Tail(nexts), queue, visited)
            ELSE bfsExpand_DepthFirst(Tail(nexts), <<Head(nexts)>> \o queue,
                                      visited \cup {key})

\* the for loop enqueueing the unvisited walkable neighbours (lines 144-152,
\* 186-194)
RECURSIVE bfsExpand(_, _, _)
bfsExpand(nexts, queue, visited) ==
    IF nexts = <<>> THEN [queue |-> queue, visited |-> visited]
    ELSE LET key == posKey(Head(nexts))
         IN IF key \in visited THEN bfsExpand(Tail(nexts), queue, visited)
            ELSE bfsExpand(Tail(nexts), Append(queue, Head(nexts)),
                           visited \cup {key})

\* the while loop of getNearestSafePosition (lines 138-153)
RECURSIVE safeLoop(_, _)
safeLoop(queue, visited) ==
    IF queue = <<>> THEN NULL
    ELSE LET current == Head(queue)
         IN IF isSafe(current) THEN <<current>>
            ELSE LET r == bfsExpand(getAdjacentWalkablePositions(current),
                                    Tail(queue), visited)
                 IN safeLoop(r.queue, r.visited)

\* Faulty variant: an invalid start is handed back instead of null.
getNearestSafePosition_InvalidStartKept(start) ==
    IF ~isValidPosition(start) THEN <<start>>
    ELSE IF ~isWalkable(start) THEN NULL
    ELSE safeLoop(<<start>>, {posKey(start)})

\* Faulty variant: the search starts from a start that is not walkable.
getNearestSafePosition_AnyStart(start) ==
    IF ~isValidPosition(start) THEN NULL
    ELSE safeLoop(<<start>>, {posKey(start)})

getNearestSafePosition(start) ==
    IF ~isValidPosition(start) THEN NULL
    ELSE IF ~isWalkable(start) THEN NULL
    ELSE safeLoop(<<start>>, {posKey(start)})

\* the for loop over the four neighbours of current (lines 175-184): the
\* first in-bounds BOX neighbour, or null
RECURSIVE boxScan(_)
boxScan(adj) ==
    IF adj = <<>> THEN NULL
    ELSE IF ~inBounds(Head(adj)) THEN boxScan(Tail(adj))
    ELSE IF cellAt(Head(adj)) = BOX THEN <<Head(adj)>>
    ELSE boxScan(Tail(adj))

\* the while loop of findNearestBox (lines 173-195)
RECURSIVE boxLoop(_, _)
boxLoop(queue, visited) ==
    IF queue = <<>> THEN NULL
    ELSE LET current == Head(queue)
             found == boxScan(getAdjacentPositions(current))
         IN IF found # NULL THEN found
            ELSE LET r == bfsExpand(getAdjacentWalkablePositions(current),
                                    Tail(queue), visited)
                 IN boxLoop(r.queue, r.visited)

\* The scan of the faulty variant below: the BOX cell nearest to start in
\* Manhattan distance, rows top to bottom and columns left to right, among
\* those nearer than bestDistance (best if there is none).
RECURSIVE boxManhattanScan(_, _, _, _, _)
boxManhattanScan(start, x, y, best, bestDistance) ==
    IF y >= field.height THEN best
    ELSE IF x >= field.width THEN boxManhattanScan(start, 0, y + 1, best, bestDistance)
    ELSE IF cellAt(Position(x, y)) = BOX
            /\ distanceTo(start, Position(x, y)) < bestDistance
         THEN boxManhattanScan(start, x + 1, y, <<Position(x, y)>>,
                               distanceTo(start, Position(x, y)))
         ELSE boxManhattanScan(start, x + 1, y, best, bestDistance)

\* Faulty variant: the scan of all cells for the BOX nearest in Manhattan
\* distance, walls and reachability ignored.
findNearestBox_Manhattan(start) ==
    IF ~isValidPosition(start) THEN NULL
    ELSE IF ~isWalkable(start) THEN NULL
    ELSE boxManhattanScan(start, 0, 0, NULL,
                          2 * (field.width + field.height) + 2)

findNearestBox(start) ==
    IF ~isValidPosition(start) THEN NULL
    ELSE IF ~isWalkable(start) THEN NULL
    ELSE boxLoop(<<start>>, {posKey(start)})

(***************************************************************************)
(* client.ts: the sanitizer that turns a classic_state payload into a      *)
(* GameState.  Payloads are JavaScript values; the numbers of a GameState  *)
(* that the sanitizer floors (coordinates, width, height) are integers,    *)
(* the others (currentTick, health, score, fuse) stay JavaScript numbers.  *)
(***************************************************************************)
toNumberOr(value, fallback) ==
    IF typeOf(value) # "number" \/ isNaN(value) \/ ~isFinite(value)
    THEN fallback
    ELSE value

\* n <= 0 for a finite number n
leqZero(n) == n.int < 0 \/ (n.int = 0 /\ ~n.half)

\* Faulty variant: a number with a fraction is rounded to the nearest whole
\* number.
toNonNegativeInt_Rounding(value) ==
    LET n == toNumberOr(value, JSNum(0))
    IN IF ~isFinite(n) \/ leqZero(n) THEN 0
       ELSE IF n.half THEN n.int + 1
       ELSE n.int

toNonNegativeInt(value) ==
    LET n == toNumberOr(value, JSNum(0))
    IN IF ~isFinite(n) \/ leqZero(n) THEN 0
       ELSE n.int

toPosition(pos) ==
    Position(toNonNegativeInt(optGet(pos, "x")),
             toNonNegativeInt(optGet(pos, "y")))

\* Faulty variant: the numbers 0 and 1 are read as AIR and WALL.
decodeCell_ZeroIsAir(input) ==
    IF input = JSStr("AIR") THEN AIR
    ELSE IF input = JSStr("WALL") THEN WALL
    ELSE IF input = JSStr("BOX") THEN BOX
    ELSE IF typeOf(input) = "number"
         THEN CASE input = JSNum(0) -> AIR
                [] input = JSNum(1) -> WALL
                [] input = JSNum(2) -> BOX
                [] OTHER -> AIR
    ELSE AIR

\* CellType.AIR is the string "AIR", so input === CellType.AIR and
\* input === "AIR" are one test
decodeCell(input) ==
    IF input = JSStr("AIR") THEN AIR
    ELSE IF input = JSStr("WALL") THEN WALL
    ELSE IF input = JSStr("BOX") THEN BOX
    ELSE IF typeOf(input) = "number"
         THEN CASE input = JSNum(0) -> WALL
                [] input = JSNum(1) -> AIR
                [] input = JSNum(2) -> BOX
                [] OTHER -> AIR
    ELSE AIR

\* flat[idx] for an index idx >= 0: the element, or undefined past the end
elementAt(flat, idx) ==
    IF idx + 1 \in DOMAIN flat THEN flat[idx + 1] ELSE JSUndefined

\* Faulty variant: the flat list is read column by column.
RECURSIVE cellsRow_ColumnMajor(_, _, _, _, _, _)
cellsRow_ColumnMajor(flat, width, height, y, x, row) ==
    IF ~(x < width) THEN row
    ELSE cellsRow_ColumnMajor(flat, width, height, y, x + 1,
                  Append(row, decodeCell(elementAt(flat, x * height + y))))

\* the inner for loop of to2dCells (lines 215-218): row.push for x, x + 1, ...
RECURSIVE cellsRow(_, _, _, _, _, _)
cellsRow(flat, width, height, y, x, row) ==
    IF ~(x < width) THEN row
    ELSE cellsRow(flat, width, height, y, x + 1,
                  Append(row, decodeCell(elementAt(flat, y * width + x))))

\* the outer for loop of to2dCells (lines 213-220): rows.push for y, y + 1, ...
RECURSIVE cellsRows(_, _, _, _, _)
cellsRows(flat, width, height, y, rows) ==
    IF ~(y < height) THEN rows
    ELSE cellsRows(flat, width, height, y + 1,
                   Append(rows, cellsRow(flat, width, height, y, 0, <<>>)))

\* an array (indices from 1 in the model) as addressed in the source, from 0
fromZero(s) == [i \in 0 .. Len(s) - 1 |-> s[i + 1]]

to2dCells(wireField) ==
    LET width == toNonNegativeInt(optGet(wireField, "width"))
        height == toNonNegativeInt(optGet(wireField, "height"))
        flat == IF isArray(optGet(wireField, "field"))
                THEN optGet(wireField, "field").items
                ELSE <<>>
        rows == cellsRows(flat, width, height, 0, <<>>)
    IN fromZero([i \in DOMAIN rows |-> fromZero(rows[i])])

toPlayer(p) ==
    [id |-> IF typeOf(optGet(p, "id")) = "string" THEN optGet(p, "id").str
            ELSE "",
     pos |-> toPosition(optGet(p, "pos")),
     health |-> toNumberOr(optGet(p, "health"), JSNum(0)),
     score |-> toNumberOr(optGet(p, "score"), JSNum(0))]

\* the outcome of a call that threw an error with the given message
ThrownError(message) == [threw |-> TRUE, message |-> message]

threw(r) == "threw" \in DOMAIN r

\* the message of the error of line 169
NoPlayersMessage == "classic_state payload has no players"

\* (list ?? []).map(f) can be evaluated: list is null, undefined or an array
mappable(list) == nullish(list) \/ isArray(list)

\* the elements of (list ?? [])
elementsOf(list) == IF nullish(list) THEN <<>> ELSE list.items

\* Faulty variant: a player of default values stands in when there is none.
findMe_Placeholder(players, id) ==
    IF \E i \in DOMAIN players : players[i].id = id
    THEN <<players[CHOOSE i \in DOMAIN players :
                      /\ players[i].id = id
                      /\ \A j \in 1 .. i - 1 : players[j].id # id]>>
    ELSE IF players # <<>> THEN <<players[1]>>
    ELSE <<toPlayer(JSUndefined)>>

\* players.find((p) => p.id === id) ?? players[0], as a list of at most one
findMe(players, id) ==
    IF \E i \in DOMAIN players : players[i].id = id
    THEN <<players[CHOOSE i \in DOMAIN players :
                      /\ players[i].id = id
                      /\ \A j \in 1 .. i - 1 : players[j].id # id]>>
    ELSE IF players # <<>> THEN <<players[1]>>
    ELSE <<>>

\* list.filter(keep): the elements of list that satisfy keep, in order
RECURSIVE filterPlayers(_, _)
filterPlayers(list, id) ==
    IF list = <<>> THEN <<>>
    ELSE IF Head(list).id # id THEN <<Head(list)>> \o filterPlayers(Tail(list), id)
    ELSE filterPlayers(Tail(list), id)

\* Faulty variant: the opponents are the players other than the first.
toOpponents_NotFirst(players, me) ==
    IF players = <<>> THEN <<>> ELSE filterPlayers(players, players[1].id)

\* players.filter((p) => p.id !== me.id) (line 171)
toOpponents(players, me) == filterPlayers(players, me.id)

toGameState(payload, id) ==
    IF ~mappable(optGet(payload, "players")) THEN ThrownError("TypeError")
    ELSE LET rawPlayers == elementsOf(optGet(payload, "players"))
             players == [i \in DOMAIN rawPlayers |-> toPlayer(rawPlayers[i])]
             me == findMe(players, id)
         IN IF me = <<>> THEN ThrownError(NoPlayersMessage)
            ELSE IF ~mappable(optGet(payload, "bombs")) THEN ThrownError("TypeError")
            ELSE IF ~mappable(optGet(payload, "explosions")) THEN ThrownError("TypeError")
            ELSE LET rawBombs == elementsOf(optGet(payload, "bombs"))
                     rawExplosions == elementsOf(optGet(payload, "explosions"))
                     wireField == optGet(payload, "field")
                 IN [currentTick |->
                         toNumberOr(optGet(payload, "currentTick"), JSNum(0)),
                     me |-> me[1],
                     opponents |-> toOpponents(players, me[1]),
                     players |-> players,
                     field |->
                         [width |-> toNonNegativeInt(optGet(wireField, "width")),
                          height |-> toNonNegativeInt(optGet(wireField, "height")),
                          cells |-> to2dCells(wireField)],
                     bombs |->
                         [i \in DOMAIN rawBombs |->
                             [pos |-> toPosition(optGet(rawBombs[i], "pos")),
                              fuse |-> toNumberOr(optGet(rawBombs[i], "fuse"),
                                                  JSNum(0))]],
                     explosions |->
                         [i \in DOMAIN rawExplosions |->
                             toPosition(rawExplosions[i])]]

\* Faulty variant: a value that is no action is sent on as PLACE_BOMB.
normalizeAction_DefaultBomb(value) ==
    IF value \in {JSStr(MOVE_UP), JSStr(MOVE_DOWN), JSStr(MOVE_LEFT),
                  JSStr(MOVE_RIGHT), JSStr(PLACE_BOMB), JSStr(DO_NOTHING)}
    THEN value.str
    ELSE PLACE_BOMB

normalizeAction(value) ==
    IF value \in {JSStr(MOVE_UP), JSStr(MOVE_DOWN), JSStr(MOVE_LEFT),
                  JSStr(MOVE_RIGHT), JSStr(PLACE_BOMB), JSStr(DO_NOTHING)}
    THEN value.str
    ELSE DO_NOTHING

(***************************************************************************)
(* internal/ws-client.ts: WsClient.  socket is null before connect() and   *)
(* a WebSocket afterwards, of which the model keeps the readyState.  An    *)
(* envelope on the wire is the record [type, payload]; a payload is a      *)
(* record of its properties.  A call of send or sendAction yields the new  *)
(* wire and the listeners it called.                                       *)
(***************************************************************************)
CONNECTING == "CONNECTING"
OPEN == "OPEN"
CLOSING == "CLOSING"
CLOSED == "CLOSED"
NoSocket == "null"

isAction(value) ==
    value \in {JSStr(MOVE_UP), JSStr(MOVE_DOWN), JSStr(MOVE_LEFT),
               JSStr(MOVE_RIGHT), JSStr(PLACE_BOMB), JSStr(DO_NOTHING)}

\* a payload that holds itself: JSON.stringify throws on it
Circular == [self |-> "[Circular]"]

\* a payload on which socket.send throws
Unsendable == [self |-> "[Unsendable]"]

\* the try block of send throws
sendThrows(payload) == payload \in {Circular, Unsendable}

\* the events connect() attaches a handler for
SocketEvents == {"open", "message", "error", "close"}

\* Faulty variant: the error of new WebSocket(...) reaches the caller.
connect_Uncaught(sock, constructs) ==
    IF constructs
    THEN [socket |-> CONNECTING, listening |-> SocketEvents,
          notified |-> <<>>, returns |-> JSUndefined]
    ELSE [socket |-> sock, listening |-> listening,
          notified |-> <<>>, returns |-> ThrownError("WebSocket")]

\* connect(): new WebSocket(...) constructs a connecting socket, to which
\* the four handlers are attached, or throws; sock is this.socket before
connect(sock, constructs) ==
    IF constructs
    THEN [socket |-> CONNECTING, listening |-> SocketEvents,
          notified |-> <<>>, returns |-> JSUndefined]
    ELSE [socket |-> sock, listening |-> listening,
          notified |-> <<"onError">>, returns |-> JSUndefined]

\* Faulty variant: the envelope is transmitted whatever the state of the socket.
send_Unchecked(sock, type, payload) ==
    IF sendThrows(payload)
    THEN [wire |-> wire, notified |-> <<"onError">>]
    ELSE [wire |-> Append(wire, [type |-> type, payload |-> payload]),
          notified |-> <<>>]

\* sock is this.socket at the call: NoSocket, or the socket's readyState
send(sock, type, payload) ==
    IF sock = NoSocket \/ sock # OPEN
    THEN [wire |-> wire, notified |-> <<>>]
    ELSE IF sendThrows(payload)
         THEN [wire |-> wire, notified |-> <<"onError">>]
         ELSE [wire |-> Append(wire, [type |-> type, payload |-> payload]),
               notified |-> <<>>]

sendAction(sock, action) ==
    send(sock, "classic_input",
         [move |-> IF isAction(action) THEN action.str ELSE DO_NOTHING])

(***************************************************************************)
(* client.ts: run().  The onMessage handler is an async function: it runs  *)
(* up to its await when a message arrives and goes on, as a step of its    *)
(* own, when the promise of the bot settles.  An invocation is the record  *)
(* of one handler call that built a GameState: state is the index of that  *)
(* object in heap, phase is "awaiting" or "done", hangs tells that the     *)
(* promise never settles.  For the properties it also keeps the payload    *)
(* and the state as they were at the call, the last valid welcome, the     *)
(* helpers' answers to the bot before the await, the outcome of the bot,   *)
(* whether the socket was open when the handler went on, and the envelopes *)
(* the handler transmitted.                                                *)
(***************************************************************************)
MSG_PLAYER_STATUS_UPDATE == "player_status_update"

\* process.env.BOMBAHEAD_TOKEN ?? ... ?? "dev-token-local"
Token == "dev-token-local"

\* the fallback bot: getNextMove: () => Action.DO_NOTHING
FallbackBot ==
    JSObj([getNextMove |-> [tag |-> "function", returns |-> DO_NOTHING]])

toSafeBot(bot) ==
    IF typeOf(optGet(bot, "getNextMove")) = "function" THEN bot
    ELSE FallbackBot

\* Faulty variant: nothing is sent when the socket opens.
onConnect_Silent(sock) == [wire |-> wire, notified |-> <<>>]

\* client.onConnect(() => client.send(...)) (lines 71-73)
onConnect(sock) ==
    send(sock, MSG_PLAYER_STATUS_UPDATE, [isReady |-> TRUE, authToken |-> Token])

\* Faulty variant: every string clientId is stored, the empty one too.
welcome_AnyString(payload, id) ==
    IF typeOf(optGet(payload, "clientId")) = "string"
    THEN optGet(payload, "clientId").str
    ELSE id

\* case MSG_WELCOME (lines 98-107): the new value of myId
welcome(payload, id) ==
    IF /\ typeOf(optGet(payload, "clientId")) = "string"
       /\ optGet(payload, "clientId").str # ""
    THEN optGet(payload, "clientId").str
    ELSE id

\* Faulty variant: one GameState object is reused for every message.
newState_Reused(objects, st) ==
    IF objects = <<>> THEN <<st>>
    ELSE [objects EXCEPT ![Len(objects)] = st]

\* toGameState returns a new object (lines 186-194)
newState(objects, st) == Append(objects, st)

\* new GameHelpers(state): the snapshot as the helpers read it; a fuse, a
\* whole number in every payload of the model, is read as an integer
helpersBombs(st) ==
    [i \in DOMAIN st.bombs |->
        [pos |-> st.bombs[i].pos, fuse |-> st.bombs[i].fuse.int]]

\* what the bot asks its helpers about its own tile
answers(p) ==
    <<isWalkable(p), isSafe(p), getNearestSafePosition(p), findNearestBox(p)>>

\* the outcomes of the promise (or value) that getNextMove returned
Resolved(v) == [kind |-> "resolved", value |-> v]

Rejected == [kind |-> "rejected"]

ThrewSync == [kind |-> "threw"]

\* lines 140-150: the action for a settled outcome
actionOf(outcome) ==
    IF outcome.kind = "resolved" THEN normalizeAction(outcome.value)
    ELSE DO_NOTHING

\* Faulty variant: the handler returns from the catch block without sending.
afterBot_DropOnFailure(sock, outcome) ==
    IF outcome.kind = "resolved"
    THEN sendAction(sock, JSStr(actionOf(outcome)))
    ELSE [wire |-> wire, notified |-> <<>>]

\* lines 140-152: the handler once the bot has settled or thrown
afterBot(sock, outcome) == sendAction(sock, JSStr(actionOf(outcome)))

(***************************************************************************)
(* The snapshots the queries are run on.  A GameState is built once per    *)
(* tick (client.ts toGameState, or directly by a caller of GameHelpers)    *)
(* and never changes; the queries are pure.                                *)
(***************************************************************************)
\* most WALL or BOX cells of a field
MaxBlocks == 2
\* most bombs of a snapshot
MaxBombs == 3
\* largest fuse of a bomb
MaxFuse == 1
\* most explosion tiles of a snapshot
MaxExplosions == 1

CellsOf(W, H) == (0 .. W - 1) \X (0 .. H - 1)

\* the fields of W columns and H rows with at most n WALL or BOX cells
Fields(W, H, n) ==
    { [width |-> W, height |-> H,
       cells |-> [y \in 0 .. H - 1 |-> [x \in 0 .. W - 1 |-> g[<<x, y>>]]]] :
      g \in { h \in [CellsOf(W, H) -> CellType] :
                Cardinality({c \in CellsOf(W, H) : h[c] # AIR}) <= n } }

\* the positions with x in xs and y in ys
Positions(xs, ys) == { Position(x, y) : x \in xs, y \in ys }

\* the tiles of field f, and those tiles with the ring of positions around them
Tiles(f) == Positions(0 .. f.width - 1, 0 .. f.height - 1)

Around(f) == Positions(-1 .. f.width, -1 .. f.height)

\* the lists of at most n elements of S
ListsOf(S, n) == UNION { [1 .. k -> S] : k \in 0 .. n }

Bombs(ps, fuses) == [pos : ps, fuse : fuses]

NoCall == [op |-> "none", args |-> <<>>]

\* no client is involved: the helpers and the sanitizer are used on their own
NoClient ==
    /\ socket = NoSocket
    /\ wire = <<>>
    /\ notified = <<>>
    /\ listening = {}
    /\ userBot = JSUndefined
    /\ myId = ""
    /\ welcomed = <<>>
    /\ received = 0
    /\ heap = <<>>
    /\ invocations = <<>>

\* snapshots for walking and searching: a 3x3 field with at most MaxBlocks
\* blocks and at most one bomb
InitNav ==
    /\ field \in Fields(3, 3, MaxBlocks)
    /\ bombs \in ListsOf(Bombs(Tiles(field), {0, MaxFuse}), 1)
    /\ explosions = <<>>
    /\ call = NoCall
    /\ result = NULL
    /\ NoClient

\* snapshots for routing: a 3x3 field with at most MaxBlocks obstacles, of
\* which at most one is a bomb; the fuse plays no part in routing
InitRoute ==
    /\ bombs \in ListsOf(Bombs(Positions(0 .. 2, 0 .. 2), {MaxFuse}), 1)
    /\ field \in Fields(3, 3, MaxBlocks - Len(bombs))
    /\ explosions = <<>>
    /\ call = NoCall
    /\ result = NULL
    /\ NoClient

\* snapshots for blasts:
\*  - an open 2x2 field with up to MaxBombs bombs (chains of several triggers);
\*  - a line of five tiles with blocks and bombs (rays of full length);
\*  - a line of three tiles with blocks and bombs (chains cut by blocks);
\*  - a 2x2 field with explosion tiles and a bomb that may lie off the field
InitBlast ==
    /\ \/ /\ field \in Fields(2, 2, 0)
          /\ bombs \in ListsOf(Bombs(Tiles(field), {0, MaxFuse}), MaxBombs)
          /\ explosions = <<>>
       \/ /\ field \in Fields(5, 1, MaxBlocks - 1) \cup Fields(1, 5, MaxBlocks - 1)
          /\ bombs \in ListsOf(Bombs(Tiles(field), {0, MaxFuse}), MaxBombs - 2)
          /\ explosions = <<>>
       \/ /\ field \in Fields(3, 1, MaxBlocks) \cup Fields(1, 3, MaxBlocks)
          /\ bombs \in ListsOf(Bombs(Tiles(field), {0, MaxFuse}), MaxBombs - 1)
          /\ explosions = <<>>
       \/ /\ field \in Fields(2, 2, MaxBlocks - 1)
          /\ bombs \in ListsOf(Bombs(Around(field), {-1, MaxFuse}), 1)
          /\ explosions \in ListsOf(Tiles(field), MaxExplosions)
    /\ call = NoCall
    /\ result = NULL
    /\ NoClient

\* snapshots for bombs that share a tile: a line of three tiles with at most
\* one block and fewer than MaxBombs bombs, on any tiles and in any order
InitHazard ==
    /\ field \in Fields(3, 1, 1)
    /\ bombs \in ListsOf(Bombs(Tiles(field), {0, MaxFuse}), MaxBombs - 1)
    /\ explosions = <<>>
    /\ call = NoCall
    /\ result = NULL
    /\ NoClient

\* degenerate snapshots: empty and one-tile fields, bombs and explosions that
\* may lie outside the field
InitEdge ==
    /\ field \in Fields(0, 0, 0) \cup Fields(0, 2, 0) \cup Fields(2, 0, 0)
                 \cup Fields(1, 1, 1)
    /\ bombs \in ListsOf(Bombs(Around(field), {0, MaxFuse}), 1)
    /\ explosions \in ListsOf(Around(field), MaxExplosions)
    /\ call = NoCall
    /\ result = NULL
    /\ NoClient

\* values that are no Position: null, undefined, values that are no object,
\* objects that lack x or y, and objects whose x or y is no finite number
MalformedPositions ==
    { JSNull, JSUndefined, JSBool(TRUE), JSStr("1,1"), JSNum(1),
      JSObj(NoProps), JSObj([x |-> JSNum(1)]), JSObj([y |-> JSNum(1)]),
      JSObj([x |-> JSStr("1"), y |-> JSNum(1)]),
      JSObj([x |-> JSNum(1), y |-> JSNull]),
      JSObj([x |-> JSNaN, y |-> JSNum(0)]),
      JSObj([x |-> JSNum(0), y |-> JSInfinity]),
      JSObj([x |-> JSNegInfinity, y |-> JSNum(0)]) }

\* objects with finite numbers x and y of which one or both have a
\* fraction, in and around a field of two by two tiles: -0.5, 0.5, 1.5, 2.5
FractionalPositions ==
    { JSObj([x |-> a, y |-> b]) :
        <<a, b>> \in ({JSHalf(-1), JSHalf(0), JSHalf(1), JSHalf(2)}
                           \X {JSHalf(0), JSNum(0), JSNum(1)})
                      \cup ({JSNum(0), JSNum(1)} \X {JSHalf(0), JSHalf(1)}) }

\* snapshots for the guarded queries: a 2x2 field with blocks and a bomb
InitGuard ==
    /\ field \in Fields(2, 2, MaxBlocks - 1)
    /\ bombs \in ListsOf(Bombs(Tiles(field), {0, MaxFuse}), 1)
    /\ explosions = <<>>
    /\ call = NoCall
    /\ result = NULL
    /\ NoClient

\* largest whole width or height of a payload
MaxDim == 2
\* most elements of the flat cell list of a payload
MaxFlat == 5

\* numbers and other values a payload may carry where a number is expected:
\* whole numbers from -1, the numbers half way between them, NaN, the
\* infinities, a numeric string, undefined
WireNumbers ==
    { JSNum(i) : i \in -1 .. MaxDim } \cup { JSHalf(i) : i \in -1 .. MaxDim }
    \cup { JSNaN, JSInfinity, JSNegInfinity, JSStr("2"), JSUndefined }

\* values a payload may carry as a cell
WireCells ==
    { JSStr("AIR"), JSStr("WALL"), JSStr("BOX"), JSStr("x"), JSStr(""),
      JSNum(-1), JSNum(0), JSNum(1), JSNum(2), JSNum(3), JSHalf(0), JSNaN,
      JSInfinity, JSUndefined, JSNull, JSBool(TRUE), JSObj(NoProps),
      JSArr(<<JSNum(0)>>) }

\* field payloads: any two dimensions with a flat list of at most MaxFlat
\* cells (shorter and longer than width * height), and field objects without
\* a list or without dimensions
WireFields ==
    { JSObj([width |-> w, height |-> h, field |-> JSArr(flat)]) :
        w \in WireNumbers, h \in WireNumbers,
        flat \in ListsOf({JSNum(0), JSStr("BOX"), JSStr("x")}, MaxFlat) }
    \cup { JSObj([width |-> JSNum(MaxDim), height |-> JSNum(1), field |-> f]) :
             f \in {JSUndefined, JSNull, JSStr("BOX"), JSObj(NoProps)} }
    \cup { JSNull, JSUndefined, JSNum(1), JSObj(NoProps),
           JSObj([width |-> JSNum(MaxDim), height |-> JSNum(MaxDim)]),
           JSObj([field |-> JSArr(<<JSNum(0)>>)]) }

WirePosition(x, y) == JSObj([x |-> x, y |-> y])

WirePlayer(id, pos) ==
    JSObj([id |-> id, pos |-> pos, health |-> JSNum(3), score |-> JSNum(0)])

\* player payloads: two ids, an id that is no string, a player that is null
WirePlayers ==
    { WirePlayer(JSStr("a"), WirePosition(JSNum(0), JSNum(0))),
      WirePlayer(JSStr("b"), WirePosition(JSNum(1), JSHalf(0))),
      WirePlayer(JSNum(7), JSNull),
      JSNull }

\* classic_state payloads: up to two players, a field of any two dimensions
\* with a list of four cells, a bomb, an explosion; and payloads that are no
\* object or whose lists are no arrays
StatePayloads ==
    { JSObj([currentTick |-> JSNaN, players |-> JSArr(ps), field |-> f,
             bombs |-> JSArr(<<JSObj([pos |-> WirePosition(JSNum(1), JSNaN),
                                      fuse |-> JSNaN])>>),
             explosions |-> JSArr(<<WirePosition(JSNaN, JSNum(1))>>)]) :
        ps \in ListsOf(WirePlayers, 2),
        f \in { JSObj([width |-> w, height |-> h,
                       field |-> JSArr(<<JSNum(0), JSNum(1), JSStr("BOX"),
                                         JSStr("x")>>)]) :
                  w \in WireNumbers, h \in WireNumbers } }
    \cup { JSNull, JSUndefined, JSStr("state"), JSObj(NoProps),
           JSObj([players |-> JSStr("ab")]),
           JSObj([players |-> JSArr(<<JSNull>>), bombs |-> JSNum(1)]),
           JSObj([players |-> JSArr(<<JSNull>>), explosions |-> JSObj(NoProps)]),
           JSObj([players |-> JSArr(<<JSNull>>)]) }

\* the sanitizer is a set of pure functions: no snapshot is involved
InitDecode ==
    /\ field \in Fields(0, 0, 0)
    /\ bombs = <<>>
    /\ explosions = <<>>
    /\ call = NoCall
    /\ result = NULL
    /\ NoClient

\* most envelopes on the wire
MaxWire == 2

\* a WsClient just constructed, with listeners that only record their call
InitWs ==
    /\ field \in Fields(0, 0, 0)
    /\ bombs = <<>>
    /\ explosions = <<>>
    /\ call = NoCall
    /\ result = NULL
    /\ NoClient

\* most server messages of a run
MaxMessages == 2

\* a getNextMove whose promise never settles
JSNever == [tag |-> "function", returns |-> "never"]

\* the values handed to run() as the bot: an object with a getNextMove
\* function, one whose promise never settles, and values that are no such
\* object
UserBots ==
    { JSObj([getNextMove |-> JSFunc]), JSObj([getNextMove |-> JSNever]),
      JSObj(NoProps), JSNull }

\* what a bot may return: an action, a string that is no action, undefined,
\* null
BotValues == { JSStr(PLACE_BOMB), JSStr("BAD"), JSUndefined, JSNull }

\* welcome payloads: two client ids, an empty one, one that is no string, no
\* payload
WelcomePayloads ==
    { JSObj([clientId |-> JSStr("a")]), JSObj([clientId |-> JSStr("b")]),
      JSObj([clientId |-> JSStr("")]), JSObj([clientId |-> JSNum(7)]),
      JSNull }

\* a classic_state payload with a field of two tiles in a row
RunPayload(players, bombList) ==
    JSObj([currentTick |-> JSNum(1), players |-> JSArr(players),
           field |-> JSObj([width |-> JSNum(2), height |-> JSNum(1),
                            field |-> JSArr(<<JSStr("AIR"), JSStr("AIR")>>)]),
           bombs |-> JSArr(bombList), explosions |-> JSArr(<<>>)])

\* classic_state payloads: player a first, second, and twice after a player
\* whose id is no string; with and without a bomb on a's tile; and payloads
\* without players: an empty list, null, and no players property
RunPayloads ==
    LET a == WirePlayer(JSStr("a"), WirePosition(JSNum(0), JSNum(0)))
        a2 == WirePlayer(JSStr("a"), WirePosition(JSNum(1), JSNum(0)))
        b == WirePlayer(JSStr("b"), WirePosition(JSNum(1), JSNum(0)))
        n == WirePlayer(JSNum(7), WirePosition(JSNum(1), JSNum(0)))
        bomb == JSObj([pos |-> WirePosition(JSNum(0), JSNum(0)),
                       fuse |-> JSNum(0)])
        none == RunPayload(<<>>, <<>>).props
    IN { RunPayload(<<a, b>>, <<>>), RunPayload(<<b, a>>, <<bomb>>),
         RunPayload(<<n, a, a2>>, <<>>), RunPayload(<<>>, <<>>),
         JSObj([none EXCEPT !.players = JSNull]),
         JSObj([k \in DOMAIN none \ {"players"} |-> none[k]]) }

\* run() has constructed the client and registered its listeners
InitRun ==
    /\ field \in Fields(0, 0, 0)
    /\ bombs = <<>>
    /\ explosions = <<>>
    /\ call = NoCall
    /\ result = NULL
    /\ socket = NoSocket
    /\ wire = <<>>
    /\ notified = <<>>
    /\ listening = {}
    /\ userBot \in UserBots
    /\ myId = ""
    /\ welcomed = <<>>
    /\ received = 0
    /\ heap = <<>>
    /\ invocations = <<>>

(***************************************************************************)
(* One action per query: the caller picks the arguments, the query runs    *)
(* to completion on the snapshot and leaves it unchanged.                  *)
(***************************************************************************)
Returns(op, args, value) ==
    /\ call = NoCall
    /\ call' = [op |-> op, args |-> args]
    /\ result' = value
    /\ UNCHANGED <<field, bombs, explosions>>
    /\ UNCHANGED clientVars

\* the positions the queries are asked about: every tile and one position off
\* each side of the field; on an empty or one-tile field, the whole ring of
\* positions around it
OffField(f) ==
    { Position(-1, 0), Position(f.width, f.height - 1),
      Position(0, -1), Position(f.width - 1, f.height) }

Probes ==
    IF field.width * field.height <= 1 THEN Around(field)
    ELSE Tiles(field) \cup OffField(field)

CallIsWalkable ==
    \E p \in Probes : Returns("isWalkable", <<p>>, isWalkable(p))

CallGetAdjacentWalkablePositions ==
    \E p \in Probes :
        Returns("getAdjacentWalkablePositions", <<p>>,
                getAdjacentWalkablePositions(p))

CallGetNextActionTowards ==
    \E start \in Probes, target \in Probes :
        Returns("getNextActionTowards", <<start, target>>,
                getNextActionTowards(start, target))

\* step 1 of the Quick Start bot of the README: the box found from the own
\* tile is the target of getNextActionTowards
CallQuickStart ==
    /\ call = NoCall
    /\ \E me \in Tiles(field) :
          LET box == findNearestBox(me)
          IN /\ box # NULL
             /\ Returns("quickStart", <<me, box[1]>>,
                        getNextActionTowards(me, box[1]))

CallIsSafe ==
    \E p \in Probes : Returns("isSafe", <<p>>, isSafe(p))

CallGetNearestSafePosition ==
    \E p \in Probes :
        Returns("getNearestSafePosition", <<p>>, getNearestSafePosition(p))

CallFindNearestBox ==
    \E p \in Probes :
        Returns("findNearestBox", <<p>>, findNearestBox(p))

\* isSafe has answered for a snapshot; the snapshot that follows lists the
\* same bombs in another order.  The position and the answer are kept.
BombsReordered ==
    /\ call.op = "isSafe"
    /\ \E f \in { g \in [DOMAIN bombs -> DOMAIN bombs] :
                     \A i, j \in DOMAIN bombs : g[i] = g[j] => i = j } :
          /\ bombs' = [i \in DOMAIN bombs |-> bombs[f[i]]]
          /\ bombs' # bombs
    /\ call' = [op |-> "reordered", args |-> <<call.args[1], result>>]
    /\ result' = NULL
    /\ UNCHANGED <<field, explosions>>
    /\ UNCHANGED clientVars

\* isSafe has answered for a snapshot; the snapshot that follows has one
\* more bomb, with a fuse > 0, on a tile that holds a bomb, anywhere in the
\* list
BombDoubled ==
    /\ call.op = "isSafe"
    /\ Len(bombs) < MaxBombs
    /\ \E i \in DOMAIN bombs, k \in 0 .. Len(bombs) :
          bombs' = SubSeq(bombs, 1, k)
                   \o <<[pos |-> bombs[i].pos, fuse |-> MaxFuse]>>
                   \o SubSeq(bombs, k + 1, Len(bombs))
    /\ call' = [op |-> "doubled", args |-> <<call.args[1], result>>]
    /\ result' = NULL
    /\ UNCHANGED <<field, explosions>>
    /\ UNCHANGED clientVars

\* isSafe is asked about the same position on the snapshot that follows
CallIsSafeAgain ==
    /\ call.op \in {"reordered", "doubled"}
    /\ call' = [op |-> "isSafeAgain",
                args |-> <<call.args[1], call.args[2], call.op>>]
    /\ result' = isSafe(call.args[1])
    /\ UNCHANGED <<field, bombs, explosions>>
    /\ UNCHANGED clientVars

\* the private steps of isSafe, observed on their own
CallGetBlastTiles ==
    \E i \in DOMAIN bombs :
        Returns("getBlastTiles", <<i>>, getBlastTiles(<<bombs[i]>>))

CallGetImminentExplosionBombs ==
    Returns("getImminentExplosionBombs", <<>>, getImminentExplosionBombs)

\* the caller takes the result; it may ask again
Resume ==
    /\ call # NoCall
    /\ call' = NoCall
    /\ result' = NULL
    /\ UNCHANGED <<field, bombs, explosions>>
    /\ UNCHANGED clientVars

\* the queries called with a value that is no Position
CallIsWalkableUnknown ==
    \E v \in MalformedPositions : Returns("isWalkable", <<v>>, isWalkable(v))

\* isWalkable called with an object whose coordinates are finite numbers
\* with a fraction
CallIsWalkableFraction ==
    \E v \in FractionalPositions : Returns("isWalkable", <<v>>, isWalkable(v))

CallGetAdjacentWalkablePositionsUnknown ==
    \E v \in MalformedPositions :
        Returns("getAdjacentWalkablePositions", <<v>>,
                getAdjacentWalkablePositions(v))

CallGetNextActionTowardsUnknown ==
    \E v \in MalformedPositions, w \in {JSUndefined} \cup Tiles(field) :
        \/ Returns("getNextActionTowards", <<v, w>>, getNextActionTowards(v, w))
        \/ Returns("getNextActionTowards", <<w, v>>, getNextActionTowards(w, v))

CallIsSafeUnknown ==
    \E v \in MalformedPositions : Returns("isSafe", <<v>>, isSafe(v))

CallGetNearestSafePositionUnknown ==
    \E v \in MalformedPositions :
        Returns("getNearestSafePosition", <<v>>, getNearestSafePosition(v))

CallFindNearestBoxUnknown ==
    \E v \in MalformedPositions :
        Returns("findNearestBox", <<v>>, findNearestBox(v))

\* the sanitizer's functions, called on payload values
CallToNumberOr ==
    /\ call = NoCall
    /\ \E v \in WireNumbers \cup WireCells :
           Returns("toNumberOr", <<v>>, toNumberOr(v, JSNum(7)))

CallToNonNegativeInt ==
    /\ call = NoCall
    /\ \E v \in WireNumbers \cup WireCells :
           Returns("toNonNegativeInt", <<v>>, toNonNegativeInt(v))

CallToPosition ==
    /\ call = NoCall
    /\ \E pos \in { WirePosition(x, y) : x \in WireNumbers, y \in WireNumbers }
                  \cup { JSNull, JSUndefined, JSObj(NoProps) } :
           Returns("toPosition", <<pos>>, toPosition(pos))

CallDecodeCell ==
    /\ call = NoCall
    /\ \E v \in WireCells \cup WireNumbers :
           Returns("decodeCell", <<v>>, decodeCell(v))

CallTo2dCells ==
    /\ call = NoCall
    /\ \E f \in WireFields : Returns("to2dCells", <<f>>, to2dCells(f))

CallToGameState ==
    /\ call = NoCall
    /\ \E payload \in StatePayloads, id \in {"", "a", "b"} :
           Returns("toGameState", <<payload, id>>, toGameState(payload, id))

(***************************************************************************)
(* WsClient used on its own: the caller calls connect, close, send and     *)
(* sendAction in any state of the socket; the socket opens, delivers       *)
(* messages, fails and closes.                                             *)
(***************************************************************************)
WsFrame == UNCHANGED <<field, bombs, explosions, userBot, myId, welcomed,
                       received, heap, invocations>>

\* connect() on a client without a socket or with a closed one
WsConnect ==
    /\ call = NoCall
    /\ socket \in {NoSocket, CLOSED}
    /\ \E constructs \in BOOLEAN :
          /\ call' = [op |-> "connect", args |-> <<constructs>>]
          /\ result' = connect(socket, constructs).returns
          /\ socket' = connect(socket, constructs).socket
          /\ listening' = connect(socket, constructs).listening
          /\ notified' = connect(socket, constructs).notified
    /\ UNCHANGED wire
    /\ WsFrame

\* close(): this.socket?.close()
WsClose ==
    /\ call = NoCall
    /\ call' = [op |-> "close", args |-> <<>>]
    /\ result' = JSUndefined
    /\ socket' = IF socket \in {CONNECTING, OPEN} THEN CLOSING ELSE socket
    /\ notified' = <<>>
    /\ UNCHANGED <<wire, listening>>
    /\ WsFrame

WsSend ==
    /\ call = NoCall
    /\ Len(wire) < MaxWire
    /\ \E type \in {"x", "classic_input"},
          payload \in {[foo |-> "bar"], [move |-> MOVE_UP], Circular,
                        Unsendable} :
          /\ call' = [op |-> "send", args |-> <<type, payload>>]
          /\ result' = JSUndefined
          /\ wire' = send(socket, type, payload).wire
          /\ notified' = send(socket, type, payload).notified
    /\ UNCHANGED <<socket, listening>>
    /\ WsFrame

WsSendAction ==
    /\ call = NoCall
    /\ Len(wire) < MaxWire
    /\ \E action \in {JSStr(MOVE_LEFT), JSStr(DO_NOTHING), JSStr("BAD"),
                        JSUndefined} :
          /\ call' = [op |-> "sendAction", args |-> <<action>>]
          /\ result' = JSUndefined
          /\ wire' = sendAction(socket, action).wire
          /\ notified' = sendAction(socket, action).notified
    /\ UNCHANGED <<socket, listening>>
    /\ WsFrame

\* the caller goes on after a call
WsReturn ==
    /\ call # NoCall
    /\ call' = NoCall
    /\ result' = NULL
    /\ notified' = <<>>
    /\ UNCHANGED <<socket, wire, listening>>
    /\ WsFrame

\* socket.on("open")
WsOnOpen ==
    /\ socket = CONNECTING
    /\ socket' = OPEN
    /\ notified' = IF "open" \in listening THEN <<"onConnect">> ELSE <<>>
    /\ UNCHANGED <<call, result, wire, listening>>
    /\ WsFrame

\* socket.on("message")
WsOnMessage ==
    /\ socket = OPEN
    /\ notified' = IF "message" \in listening THEN <<"onMessage">> ELSE <<>>
    /\ UNCHANGED <<call, result, socket, wire, listening>>
    /\ WsFrame

\* socket.on("error")
WsOnError ==
    /\ socket \in {CONNECTING, OPEN, CLOSING}
    /\ notified' = IF "error" \in listening THEN <<"onError">> ELSE <<>>
    /\ UNCHANGED <<call, result, socket, wire, listening>>
    /\ WsFrame

\* socket.on("close")
WsOnClose ==
    /\ socket \in {CONNECTING, OPEN, CLOSING}
    /\ socket' = CLOSED
    /\ notified' = IF "close" \in listening THEN <<"onDisconnect">> ELSE <<>>
    /\ UNCHANGED <<call, result, wire, listening>>
    /\ WsFrame

(***************************************************************************)
(* run(): the socket connects, opens and closes; the server sends          *)
(* messages while it is open; the bot settles; the bot asks its helpers.   *)
(***************************************************************************)
\* client.connect() (line 156)
RunConnect ==
    /\ socket = NoSocket
    /\ \E constructs \in BOOLEAN :
          /\ socket' = connect(socket, constructs).socket
          /\ listening' = connect(socket, constructs).listening
          /\ notified' = connect(socket, constructs).notified
    /\ UNCHANGED <<helperVars, wire, userBot, myId, welcomed, received, heap,
                   invocations>>

\* the socket opens: the onConnect listener runs
OnConnect ==
    /\ socket = CONNECTING
    /\ socket' = OPEN
    /\ wire' = onConnect(OPEN).wire
    /\ UNCHANGED <<helperVars, notified, listening, userBot, myId, welcomed,
                   received, heap, invocations>>

\* the socket closes: the onDisconnect listener logs
OnDisconnect ==
    /\ socket \in {CONNECTING, OPEN}
    /\ socket' = CLOSED
    /\ UNCHANGED <<helperVars, wire, notified, listening, userBot, myId,
                   welcomed, received, heap, invocations>>

\* a message arrives
Arrives ==
    /\ socket = OPEN
    /\ received < MaxMessages
    /\ received' = received + 1
    /\ UNCHANGED <<socket, notified, listening, userBot>>

\* the handler has returned from a message of the given type and payload
Handled(type, payload) == [op |-> "onMessage", args |-> <<type, payload>>]

\* the catch of lines 132-136 took the error e: it is logged and not thrown
Caught(e) == [caught |-> e.message]

\* the handler returns from a message: no bot is running
Returned(type, payload, outcome) ==
    /\ call' = Handled(type, payload)
    /\ result' = outcome
    /\ UNCHANGED <<field, bombs, explosions>>

\* the onMessage handler on a welcome message
OnWelcome ==
    /\ Arrives
    /\ \E payload \in WelcomePayloads :
          /\ myId' = welcome(payload, myId)
          /\ welcomed' =
                IF /\ payload # JSNull
                   /\ payload.props.clientId.tag = "string"
                   /\ payload.props.clientId.str # ""
                THEN <<payload.props.clientId.str>>
                ELSE welcomed
          /\ Returned("welcome", payload, NULL)
    /\ UNCHANGED <<wire, heap, invocations>>

\* the onMessage handler on a back_to_lobby message
OnBackToLobby ==
    /\ Arrives
    /\ wire' = send(socket, MSG_PLAYER_STATUS_UPDATE, [isReady |-> TRUE]).wire
    /\ Returned("back_to_lobby", JSUndefined, NULL)
    /\ UNCHANGED <<myId, welcomed, heap, invocations>>

\* the messages the handler returns from without acting: text that is no
\* JSON (lines 89-95), update_lobby and game_start (112-114), error
\* (115-122) and a type that is none of the known ones
IgnoredKinds == {"invalid JSON", "update_lobby", "game_start", "error", "unknown"}

\* the onMessage handler on text that is no JSON, on update_lobby, game_start
\* and error messages, and on a message of another type: it returns
OnIgnored ==
    /\ Arrives
    /\ \E kind \in IgnoredKinds : Returned(kind, JSUndefined, NULL)
    /\ UNCHANGED <<wire, myId, welcomed, heap, invocations>>

\* the record of a handler call that built the state st from payload and
\* keeps the reference ref to it
Invocation(payload, st, ref) ==
    [state |-> ref, phase |-> "awaiting", hangs |-> FALSE, payload |-> payload,
     built |-> st, welcomed |-> welcomed, first |-> NULL]

\* the envelopes appended to the wire by a step
Transmitted(w) == SubSeq(w, Len(wire) + 1, Len(w))

\* the bot of invocation m is the code that is running
Running(m) == [op |-> "getNextMove", args |-> <<m>>]

\* the helpers of invocation m have answered
Asked(m) == [op |-> "helpers", args |-> <<m>>]

\* the handler of invocation m has gone on after the bot
Settled(m) == [op |-> "settled", args |-> <<m>>]

\* what the handler did after the bot: how the bot ended, whether the socket
\* was open, and the envelopes w that were transmitted
Did(outcome, w) ==
    [outcome |-> outcome, open |-> (socket = OPEN), out |-> Transmitted(w)]

\* the onMessage handler on a classic_state message, up to its await: when
\* toGameState throws the handler returns; else the helpers are constructed
\* on the new state and the bot is called: it throws, or it returns a value
\* or a promise
OnClassicState ==
    /\ Arrives
    /\ UNCHANGED <<myId, welcomed>>
    /\ \E payload \in RunPayloads :
          LET st == toGameState(payload, myId)
              m == Len(invocations) + 1
          IN IF threw(st)
             THEN /\ Returned("classic_state", payload, Caught(st))
                  /\ UNCHANGED <<wire, heap, invocations>>
             ELSE /\ heap' = newState(heap, st)
                  /\ field' = st.field
                  /\ bombs' = helpersBombs(st)
                  /\ explosions' = st.explosions
                  /\ LET inv == Invocation(payload, st, Len(heap'))
                     IN \/ /\ toSafeBot(userBot) = userBot
                           /\ wire' = afterBot(socket, ThrewSync).wire
                           /\ call' = Settled(m)
                           /\ result' = Did(ThrewSync, wire')
                           /\ invocations' =
                                 Append(invocations,
                                        [inv EXCEPT !.phase = "done"])
                        \/ /\ wire' = wire
                           /\ call' = Running(m)
                           /\ result' = NULL
                           /\ invocations' =
                                 Append(invocations,
                                        [inv EXCEPT !.hangs =
                                            (toSafeBot(userBot).props.getNextMove
                                                 = JSNever)])

\* the value or promise of the bot settles and the handler goes on
BotSettles ==
    \E m \in DOMAIN invocations :
        /\ invocations[m].phase = "awaiting"
        /\ ~invocations[m].hangs
        /\ \E outcome \in
                 IF toSafeBot(userBot) = userBot
                 THEN { Resolved(v) : v \in BotValues } \cup {Rejected}
                 ELSE { Resolved(JSStr(DO_NOTHING)) } :
              /\ wire' = afterBot(socket, outcome).wire
              /\ call' = Settled(m)
              /\ result' = Did(outcome, wire')
        /\ invocations' = [invocations EXCEPT ![m].phase = "done"]
        /\ UNCHANGED <<field, bombs, explosions, socket, notified, listening,
                       userBot, myId, welcomed, received, heap>>

\* a bot that has not settled goes on after an await of its own: the state
\* its helpers read is the one its invocation refers to
BotResumes ==
    \E m \in DOMAIN invocations :
        /\ invocations[m].phase = "awaiting"
        /\ call # Running(m)
        /\ field' = heap[invocations[m].state].field
        /\ bombs' = helpersBombs(heap[invocations[m].state])
        /\ explosions' = heap[invocations[m].state].explosions
        /\ call' = Running(m)
        /\ result' = NULL
        /\ UNCHANGED clientVars

\* the running bot asks its helpers about its own tile
BotAsks ==
    \E m \in DOMAIN invocations :
        /\ invocations[m].phase = "awaiting"
        /\ call = Running(m)
        /\ call' = Asked(m)
        /\ result' = answers(heap[invocations[m].state].me.pos)
        /\ invocations' =
              [invocations EXCEPT ![m].first =
                  IF @ = NULL THEN <<result'>> ELSE @]
        /\ UNCHANGED <<field, bombs, explosions, socket, wire, notified,
                       listening, userBot, myId, welcomed, received, heap>>

NextNav ==
    \/ CallIsWalkable
    \/ CallGetAdjacentWalkablePositions
    \/ CallGetNearestSafePosition
    \/ CallFindNearestBox
    \/ Resume

NextRoute ==
    \/ CallGetNextActionTowards
    \/ CallQuickStart
    \/ Resume

NextBlast ==
    \/ CallIsSafe
    \/ CallGetBlastTiles
    \/ CallGetImminentExplosionBombs
    \/ Resume

NextHazard ==
    \/ CallIsSafe
    \/ BombsReordered
    \/ BombDoubled
    \/ CallIsSafeAgain
    \/ CallGetImminentExplosionBombs
    \/ Resume

NextEdge ==
    \/ CallIsWalkable
    \/ CallGetAdjacentWalkablePositions
    \/ CallGetNextActionTowards
    \/ CallIsSafe
    \/ CallGetNearestSafePosition
    \/ CallFindNearestBox
    \/ Resume

NextGuard ==
    \/ CallIsWalkableUnknown
    \/ CallIsWalkableFraction
    \/ CallGetAdjacentWalkablePositionsUnknown
    \/ CallGetNextActionTowardsUnknown
    \/ CallIsSafeUnknown
    \/ CallGetNearestSafePositionUnknown
    \/ CallFindNearestBoxUnknown
    \/ CallIsWalkable
    \/ CallGetNearestSafePosition
    \/ Resume

NextDecode ==
    \/ CallToNumberOr
    \/ CallToNonNegativeInt
    \/ CallToPosition
    \/ CallDecodeCell
    \/ CallTo2dCells
    \/ CallToGameState
    \/ Resume

NextWs ==
    \/ WsConnect
    \/ WsClose
    \/ WsSend
    \/ WsSendAction
    \/ WsReturn
    \/ WsOnOpen
    \/ WsOnMessage
    \/ WsOnError
    \/ WsOnClose

NextRun ==
    \/ RunConnect
    \/ OnConnect
    \/ OnDisconnect
    \/ OnWelcome
    \/ OnBackToLobby
    \/ OnIgnored
    \/ OnClassicState
    \/ BotSettles
    \/ BotResumes
    \/ BotAsks

SpecNav == InitNav /\ [][NextNav]_vars

SpecRoute == InitRoute /\ [][NextRoute]_vars

SpecBlast == InitBlast /\ [][NextBlast]_vars

SpecHazard == InitHazard /\ [][NextHazard]_vars

SpecEdge == InitEdge /\ [][NextEdge]_vars

SpecGuard == InitGuard /\ [][NextGuard]_vars

SpecDecode == InitDecode /\ [][NextDecode]_vars

SpecWs == InitWs /\ [][NextWs]_vars

SpecRun == InitRun /\ [][NextRun]_vars

\* the event loop runs the continuation of a handler whose await has settled
SpecRunFair == InitRun /\ [][NextRun]_vars /\ WF_vars(BotSettles)

(***************************************************************************)
(* Reference notions the properties are stated with.  They are written     *)
(* from the definitions of the specification, with quantifiers and least   *)
(* fixed points, and share nothing with the operators above but the state. *)
(***************************************************************************)
InGrid(p) == p.x \in 0 .. field.width - 1 /\ p.y \in 0 .. field.height - 1

Blocked(p) == field.cells[p.y][p.x] \in {WALL, BOX}

BombAt(p) == \E i \in DOMAIN bombs : bombs[i].pos = p

ExplosionAt(p) == \E i \in DOMAIN explosions : explosions[i] = p

Walkable(p) == InGrid(p) /\ ~Blocked(p) /\ ~BombAt(p)

Up(p) == Position(p.x, p.y - 1)

Right(p) == Position(p.x + 1, p.y)

Down(p) == Position(p.x, p.y + 1)

Left(p) == Position(p.x - 1, p.y)

Moves == {MOVE_UP, MOVE_RIGHT, MOVE_DOWN, MOVE_LEFT}

\* the tile an agent at p reaches by move a
Step(p, a) ==
    CASE a = MOVE_UP -> Up(p)
      [] a = MOVE_RIGHT -> Right(p)
      [] a = MOVE_DOWN -> Down(p)
      [] a = MOVE_LEFT -> Left(p)

WalkableTiles == { p \in Tiles(field) : Walkable(p) }

\* the set of tiles at walk distance d, d + 1, ... from the frontier
RECURSIVE WalkLevels(_, _, _)
WalkLevels(frontier, seen, d) ==
    IF frontier = {} THEN <<>>
    ELSE LET nxt == { q \in WalkableTiles \ seen :
                        \E p \in frontier : distanceTo(p, q) = 1 }
         IN <<frontier>> \o WalkLevels(nxt, seen \cup nxt, d + 1)

\* shortest walk distance from s to t over walkable tiles; -1 when there is
\* no walk (or an endpoint is not walkable)
WalkDist(s, t) ==
    IF ~Walkable(s) \/ ~Walkable(t) THEN -1
    ELSE LET levels == WalkLevels({s}, {s}, 0)
         IN IF \E d \in DOMAIN levels : t \in levels[d]
            THEN (CHOOSE d \in DOMAIN levels : t \in levels[d]) - 1
            ELSE -1

Reachable(s, t) == WalkDist(s, t) >= 0

\* p is on the ray of length k from b in direction d: every tile of the ray up
\* to p is in the field and no WALL, and no tile before p is a BOX
OnRay(b, d, k, p) ==
    /\ p = Position(b.x + k * d[1], b.y + k * d[2])
    /\ \A j \in 1 .. k :
          LET q == Position(b.x + j * d[1], b.y + j * d[2])
          IN /\ InGrid(q)
             /\ field.cells[q.y][q.x] # WALL
             /\ j < k => field.cells[q.y][q.x] # BOX

\* p is in the blast footprint of a bomb on b
InFootprint(b, p) ==
    \/ p = b
    \/ \E d \in {<<0, -1>>, <<1, 0>>, <<0, 1>>, <<-1, 0>>}, k \in 1 .. 3 :
          OnRay(b, d, k, p)

\* the least set of bombs (indices into the list) that holds every bomb with
\* fuse <= 0 and every bomb on a tile of the footprint of one of its members
RECURSIVE ChainClosure(_)
ChainClosure(S) ==
    LET more == { j \in DOMAIN bombs :
                    \E i \in S : InFootprint(bombs[i].pos, bombs[j].pos) }
    IN IF more \subseteq S THEN S ELSE ChainClosure(S \cup more)

Elapsed == { i \in DOMAIN bombs : bombs[i].fuse <= 0 }

Imminent == ChainClosure(Elapsed)

Safe(p) ==
    /\ InGrid(p)
    /\ ~ExplosionAt(p)
    /\ ~BombAt(p)
    /\ ~(\E i \in Imminent : InFootprint(bombs[i].pos, p))

\* the elements of bombs whose index is in S, in list order
RECURSIVE BombsAt(_, _)
BombsAt(S, i) ==
    IF i > Len(bombs) THEN <<>>
    ELSE (IF i \in S THEN <<bombs[i]>> ELSE <<>>) \o BombsAt(S, i + 1)

Elems(s) == { s[i] : i \in DOMAIN s }

Arg(i) == call.args[i]

(***************************************************************************)
(* C1: isWalkable(p) is true exactly when p lies in the field, its cell is *)
(* neither WALL nor BOX, and no bomb (of any fuse) is on p.                *)
(***************************************************************************)
C1_IsWalkableIff ==
    call.op = "isWalkable" => (result <=> Walkable(Arg(1)))

\* an AIR tile that only a bomb makes unwalkable
C1_Witness ==
    /\ call.op = "isWalkable"
    /\ InGrid(Arg(1))
    /\ ~Blocked(Arg(1))
    /\ BombAt(Arg(1))
    /\ result = FALSE

(***************************************************************************)
(* C9: getAdjacentWalkablePositions(p) lists exactly the walkable ones of  *)
(* the neighbours up, right, down, left of p, each once, in that order,    *)
(* whether or not p itself is walkable or in the field.                    *)
(***************************************************************************)
C9_AdjacentExactOrdered ==
    call.op = "getAdjacentWalkablePositions" =>
        LET p == Arg(1)
            nb == <<Up(p), Right(p), Down(p), Left(p)>>
            rank(q) == CHOOSE i \in 1 .. 4 : nb[i] = q
        IN /\ \A i \in DOMAIN result :
                 /\ \E k \in 1 .. 4 : nb[k] = result[i]
                 /\ Walkable(result[i])
           /\ \A k \in 1 .. 4 :
                 Walkable(nb[k]) => \E i \in DOMAIN result : result[i] = nb[k]
           /\ \A i, j \in DOMAIN result :
                 i < j => rank(result[i]) < rank(result[j])

\* a position that is not walkable itself, with two or three walkable neighbours
C9_Witness ==
    /\ call.op = "getAdjacentWalkablePositions"
    /\ ~Walkable(Arg(1))
    /\ Len(result) \in {2, 3}

(***************************************************************************)
(* C2: when getNextActionTowards(start, target) returns a move, the        *)
(* neighbour of start in that direction is walkable and is one step nearer *)
(* to target, in shortest walk distance, than start.                       *)
(***************************************************************************)
C2_FirstStepOnShortestPath ==
    (call.op = "getNextActionTowards" /\ result \in Moves) =>
        LET start == Arg(1)
            target == Arg(2)
            n == Step(start, result)
            \* levels[d + 1]: the tiles at walk distance d from target (walks
            \* can be walked both ways)
            levels == IF Walkable(target) THEN WalkLevels({target}, {target}, 0)
                      ELSE <<>>
        IN /\ Walkable(n)
           /\ \E d \in DOMAIN levels :
                 /\ d >= 2
                 /\ start \in levels[d]
                 /\ n \in levels[d - 1]

\* a move returned for a target whose shortest walk is a detour
C2_Witness ==
    /\ call.op = "getNextActionTowards"
    /\ result \in Moves
    /\ WalkDist(Arg(1), Arg(2)) > distanceTo(Arg(1), Arg(2))

(***************************************************************************)
(* C3: getNextActionTowards returns DO_NOTHING when start equals target,   *)
(* when start or target is not walkable, and when target cannot be walked  *)
(* to from start; in every other case it returns one of the four moves.    *)
(***************************************************************************)
C3_NoOpExactlyWhenNoRoute ==
    call.op = "getNextActionTowards" =>
        LET start == Arg(1)
            target == Arg(2)
        IN IF \/ start = target
              \/ ~Walkable(start)
              \/ ~Walkable(target)
              \/ ~Reachable(start, target)
           THEN result = DO_NOTHING
           ELSE result \in Moves

\* two distinct walkable tiles with no walk between them
C3_Witness ==
    /\ call.op = "getNextActionTowards"
    /\ Arg(1) # Arg(2)
    /\ Walkable(Arg(1))
    /\ Walkable(Arg(2))
    /\ ~Reachable(Arg(1), Arg(2))
    /\ result = DO_NOTHING

(***************************************************************************)
(* C4: isSafe(p) is false when p is off the field, on an explosion tile,   *)
(* on a bomb's tile (any fuse), or in the blast footprint of an imminent   *)
(* bomb, and true in every other case.                                     *)
(***************************************************************************)
C4_IsSafeIff ==
    call.op = "isSafe" => (result <=> Safe(Arg(1)))

\* a safe tile in the footprint of a bomb whose fuse has not elapsed and that
\* no chain reaches, while another bomb is exploding
C4_Witness ==
    /\ call.op = "isSafe"
    /\ result = TRUE
    /\ Elapsed # {}
    /\ \E i \in DOMAIN bombs :
          /\ bombs[i].fuse > 0
          /\ InFootprint(bombs[i].pos, Arg(1))

(***************************************************************************)
(* C5: the blast footprint of one bomb is its own tile and, in each of the *)
(* four directions, the tiles at distance 1..3 up to the edge of the       *)
(* field, up to but excluding a WALL, up to and including a BOX.  So a     *)
(* WALL right of the bomb keeps that tile and the next out of the blast,   *)
(* and a BOX right of the bomb is in the blast and the next tile is not.   *)
(***************************************************************************)
C5_BlastFootprint ==
    call.op = "getBlastTiles" =>
        LET b == bombs[Arg(1)].pos
            r1 == Position(b.x + 1, b.y)
            r2 == Position(b.x + 2, b.y)
            blast == Elems(result)
        IN /\ blast = { posKey(p) :
                          p \in { q \in Tiles(field) \cup {b} : InFootprint(b, q) } }
           /\ (InGrid(r1) /\ field.cells[r1.y][r1.x] = WALL) =>
                 (posKey(r1) \notin blast /\ posKey(r2) \notin blast)
           /\ (InGrid(r1) /\ field.cells[r1.y][r1.x] = BOX) =>
                 (posKey(r1) \in blast /\ posKey(r2) \notin blast)

\* a BOX next to the bomb that is hit, with an AIR tile behind it that is not
C5_Witness ==
    /\ call.op = "getBlastTiles"
    /\ LET b == bombs[Arg(1)].pos
           r1 == Position(b.x + 1, b.y)
           r2 == Position(b.x + 2, b.y)
       IN /\ InGrid(r1)
          /\ InGrid(r2)
          /\ field.cells[r1.y][r1.x] = BOX
          /\ field.cells[r2.y][r2.x] = AIR
          /\ posKey(r1) \in Elems(result)
          /\ posKey(r2) \notin Elems(result)

(***************************************************************************)
(* C6: getImminentExplosionBombs returns exactly the bombs of the least    *)
(* set that contains every bomb with fuse <= 0 and is closed under "a bomb *)
(* on a tile of a member's footprint is a member", for chains of any       *)
(* length; it returns a value for every bomb list.                         *)
(***************************************************************************)
C6_ImminentIsChainClosure ==
    call.op = "getImminentExplosionBombs" => result = BombsAt(Imminent, 1)

\* a bomb that is imminent only through a chain of two triggers
C6_Witness ==
    /\ call.op = "getImminentExplosionBombs"
    /\ \E i \in DOMAIN bombs :
          /\ bombs[i] \in Elems(result)
          /\ bombs[i].fuse > 0
          /\ \A j \in Elapsed : ~InFootprint(bombs[j].pos, bombs[i].pos)
          /\ \A j \in DOMAIN bombs : bombs[j].pos = bombs[i].pos => bombs[j].fuse > 0

(***************************************************************************)
(* C7: a tile returned by getNearestSafePosition(start) is walkable, can   *)
(* be walked to from start, is safe, and no safe tile that can be walked   *)
(* to from start is strictly nearer in walk distance.                      *)
(***************************************************************************)
C7_NearestSafeIsNearest ==
    (call.op = "getNearestSafePosition" /\ result # NULL) =>
        LET start == Arg(1)
            t == result[1]
            levels == IF Walkable(start) THEN WalkLevels({start}, {start}, 0)
                      ELSE <<>>
        IN /\ Walkable(t)
           /\ Safe(t)
           /\ \E d \in DOMAIN levels :
                 /\ t \in levels[d]
                 /\ \A e \in 1 .. d - 1 : \A q \in levels[e] : ~Safe(q)

\* a safe tile found two or more steps away from an unsafe start
C7_Witness ==
    /\ call.op = "getNearestSafePosition"
    /\ result # NULL
    /\ WalkDist(Arg(1), result[1]) >= 2

(***************************************************************************)
(* C8: findNearestBox(start) returns a BOX cell of the field that is next  *)
(* to a tile walkable to from start, such that no BOX is next to a tile    *)
(* strictly nearer to start in walk distance; a BOX next to no such tile   *)
(* is never returned, however near in Manhattan distance; and it returns   *)
(* null exactly when start is not walkable or there is no such BOX.        *)
(***************************************************************************)
C8_NearestBoxByWalk ==
    call.op = "findNearestBox" =>
        LET start == Arg(1)
            levels == IF Walkable(start) THEN WalkLevels({start}, {start}, 0)
                      ELSE <<>>
            near(b) == { d \in DOMAIN levels :
                           \E r \in levels[d] : distanceTo(r, b) = 1 }
            boxes == { b \in Tiles(field) :
                         field.cells[b.y][b.x] = BOX /\ near(b) # {} }
        IN IF boxes = {} THEN result = NULL
           ELSE /\ result # NULL
                /\ result[1] \in boxes
                /\ \A b \in boxes : \A d \in near(b) :
                      \E e \in near(result[1]) : e <= d

\* a BOX that cannot be walked up to lies nearer to start, in Manhattan
\* distance, than the BOX returned
C8_Witness ==
    /\ call.op = "findNearestBox"
    /\ result # NULL
    /\ \E b \in Tiles(field) :
          /\ field.cells[b.y][b.x] = BOX
          /\ distanceTo(Arg(1), b) < distanceTo(Arg(1), result[1])
          /\ \A r \in WalkableTiles :
                distanceTo(r, b) = 1 => ~Reachable(Arg(1), r)

(***************************************************************************)
(* C10: for a position p off the field, on any snapshot (an empty field,   *)
(* bombs and explosions off the field included), isWalkable(p) and         *)
(* isSafe(p) are false, getNearestSafePosition(p) and findNearestBox(p)    *)
(* are null, and getNextActionTowards with p as either endpoint is         *)
(* DO_NOTHING.  Every query has a value: none fails.                       *)
(***************************************************************************)
C10_OffFieldFailsSafe ==
    /\ (call.op \in {"isWalkable", "isSafe"} /\ ~InGrid(Arg(1))) =>
          result = FALSE
    /\ (call.op \in {"getNearestSafePosition", "findNearestBox"}
          /\ ~InGrid(Arg(1))) =>
          result = NULL
    /\ (call.op = "getNextActionTowards"
          /\ (~InGrid(Arg(1)) \/ ~InGrid(Arg(2)))) =>
          result = DO_NOTHING

\* isSafe asked about the tile of a bomb that lies off the field
C10_Witness ==
    /\ call.op = "isSafe"
    /\ ~InGrid(Arg(1))
    /\ BombAt(Arg(1))
    /\ result = FALSE

(***************************************************************************)
(* C11: called with a value that is no Position (null, undefined, a value  *)
(* that is no object, an object that lacks x or y or whose x or y is no    *)
(* number, is NaN or is infinite), isWalkable and isSafe return false,     *)
(* getAdjacentWalkablePositions returns the empty list,                    *)
(* getNextActionTowards returns DO_NOTHING when either argument is such a  *)
(* value, getNearestSafePosition and findNearestBox return null.  Every    *)
(* such call has a value: none fails.                                      *)
(***************************************************************************)
\* v is no object with a finite number x and a finite number y
Malformed(v) ==
    \/ v \in {JSNull, JSUndefined}
    \/ v.tag \in {"boolean", "string", "number"}
    \/ /\ v.tag = "object"
       /\ \E k \in {"x", "y"} :
             \/ k \notin DOMAIN v.props
             \/ v.props[k].tag # "number"
             \/ v.props[k].kind \in {"NaN", "Infinity", "-Infinity"}

IsUnknown(v) == "tag" \in DOMAIN v

C11_MalformedGivesSentinel ==
    (/\ call.op \in {"isWalkable", "isSafe", "getAdjacentWalkablePositions",
                      "getNextActionTowards", "getNearestSafePosition",
                      "findNearestBox"}
     /\ \E i \in DOMAIN call.args : IsUnknown(Arg(i)) /\ Malformed(Arg(i)))
    => CASE call.op \in {"isWalkable", "isSafe"} -> result = FALSE
         [] call.op = "getAdjacentWalkablePositions" -> result = <<>>
         [] call.op = "getNextActionTowards" -> result = DO_NOTHING
         [] OTHER -> result = NULL

\* getNextActionTowards from a walkable tile to an object whose x is NaN
C11_Witness ==
    /\ call.op = "getNextActionTowards"
    /\ ~IsUnknown(Arg(1))
    /\ Walkable(Arg(1))
    /\ Arg(2) = JSObj([x |-> JSNaN, y |-> JSNum(0)])
    /\ result = DO_NOTHING

(***************************************************************************)
(* Reference notions for the message loop of run().                        *)
(***************************************************************************)
\* the six strings of the protocol
ProtocolMoves ==
    {"move_up", "move_down", "move_left", "move_right", "place_bomb", "nothing"}

\* the classic_input message with the given move
ClassicInput(move) == [type |-> "classic_input", payload |-> [move |-> move]]

\* the handler of an invocation has just gone on after the bot
JustSettled == call.op = "settled"

\* the user bot is no object with a getNextMove function
InvalidBot ==
    \/ userBot.tag # "object"
    \/ "getNextMove" \notin DOMAIN userBot.props
    \/ userBot.props.getNextMove.tag # "function"

\* the number of elements of the list that satisfy the test
CountOf(list, Test(_)) == Cardinality({i \in DOMAIN list : Test(list[i])})

IsClassicInput(e) == e.type = "classic_input"

IsDone(inv) == inv.phase = "done"

(***************************************************************************)
(* C12: in every state of the message loop of run(), each classic_input    *)
(* message on the wire has a payload.move that is one of the six protocol  *)
(* strings; and when the bot returns a value that is none of them          *)
(* (undefined, null, another string) while the socket is open, the message *)
(* sent is the one with move nothing, a protocol string being sent as      *)
(* itself.                                                                 *)
(***************************************************************************)
C12_MoveIsProtocolString ==
    /\ \A i \in DOMAIN wire :
          IsClassicInput(wire[i]) => wire[i].payload.move \in ProtocolMoves
    /\ (JustSettled /\ result.open /\ result.outcome.kind = "resolved") =>
          LET v == result.outcome.value
          IN result.out =
                 <<ClassicInput(IF v.tag = "string" /\ v.str \in ProtocolMoves
                                THEN v.str
                                ELSE "nothing")>>

\* the bot returned undefined and nothing was sent; an action was sent for
\* an earlier message
C12_Witness ==
    /\ JustSettled
    /\ result.open
    /\ result.outcome = Resolved(JSUndefined)
    /\ result.out = <<ClassicInput("nothing")>>
    /\ \E i \in DOMAIN wire : wire[i] = ClassicInput("place_bomb")

(***************************************************************************)
(* C13: for every classic_state message that yields a game state, when the *)
(* user bot is no object with a getNextMove function, or getNextMove       *)
(* throws, or its promise rejects, and the socket is open when the handler *)
(* goes on, exactly one classic_input is sent for the message and its move *)
(* is nothing; and the loop goes on: while the socket is open the handler  *)
(* can take the next classic_state message.                                *)
(***************************************************************************)
C13_FailureSendsNothingOnce ==
    (/\ JustSettled
     /\ result.open
     /\ \/ InvalidBot
        \/ result.outcome.kind \in {"threw", "rejected"})
    => /\ result.out = <<ClassicInput("nothing")>>
       /\ (socket = OPEN /\ received < MaxMessages) => ENABLED OnClassicState

\* the promise of the second invocation rejected and the first invocation is
\* over: one message with move nothing was sent for each
C13_Witness ==
    /\ call = Settled(2)
    /\ result.open
    /\ result.outcome = Rejected
    /\ invocations[1].phase = "done"
    /\ wire = <<wire[1], ClassicInput("nothing"), ClassicInput("nothing")>>
    /\ ~InvalidBot

(***************************************************************************)
(* C14: the harness imposes a timeout on the decision function: for every  *)
(* classic_state message that yields a game state, while the socket stays  *)
(* open, an action is eventually sent, even when the promise returned by   *)
(* getNextMove never settles.  In the model: every invocation is           *)
(* eventually over (its handler has called sendAction) unless the socket   *)
(* is no longer open.                                                      *)
(***************************************************************************)
C14_ActionEventuallySent ==
    \A m \in 1 .. MaxMessages :
        (m \in DOMAIN invocations)
            ~> (\/ socket # OPEN
                \/ m \in DOMAIN invocations /\ invocations[m].phase = "done")

(***************************************************************************)
(* C15: every helper query of one invocation of an asynchronous bot, before *)
(* and after a suspension, is answered from the game state built for the   *)
(* message that started the invocation: messages that arrive later change  *)
(* neither that state nor the answers.  In the model: the state an         *)
(* invocation refers to stays the state that was built for it; the state   *)
(* its helpers read while its bot runs is that state; and every answer is  *)
(* the answer of its first query.                                          *)
(***************************************************************************)
C15_QueriesUseOneSnapshot ==
    \A m \in DOMAIN invocations :
        LET inv == invocations[m]
        IN /\ heap[inv.state] = inv.built
           /\ call \in {Running(m), Asked(m)} =>
                 /\ field = inv.built.field
                 /\ explosions = inv.built.explosions
                 /\ Len(bombs) = Len(inv.built.bombs)
                 /\ \A i \in DOMAIN bombs : bombs[i].pos = inv.built.bombs[i].pos
           /\ call = Asked(m) => <<result>> = inv.first

\* the first invocation asks again after a second classic_state message has
\* arrived, whose state gives other answers
C15_Witness ==
    /\ Len(invocations) = 2
    /\ call = Asked(1)
    /\ invocations[2].first # NULL
    /\ invocations[2].first # invocations[1].first
    /\ heap[2] # heap[1]
    /\ <<result>> = invocations[1].first

(***************************************************************************)
(* C16: the first message run() sends on its connection is                 *)
(* player_status_update with isReady true and the auth token, and it is    *)
(* sent when the socket opens: nothing is on the wire before, and it is on *)
(* the wire once the socket is open; so no classic_input precedes it.  A   *)
(* classic_input is sent only once the bot's result for a state has        *)
(* settled: there are never more classic_input messages on the wire than   *)
(* invocations that are over, and a handler that goes on sends at most one.*)
(***************************************************************************)
C16_ReadyFirstInputAfterSettle ==
    /\ socket \in {NoSocket, CONNECTING} => wire = <<>>
    /\ socket = OPEN => wire # <<>>
    /\ wire # <<>> =>
          wire[1] = [type |-> "player_status_update",
                     payload |-> [isReady |-> TRUE, authToken |-> Token]]
    /\ CountOf(wire, IsClassicInput) <= CountOf(invocations, IsDone)
    /\ JustSettled => Len(result.out) <= 1

\* the ready message is followed by the classic_input of an invocation
\* whose bot resolved, while another invocation is still awaiting
C16_Witness ==
    /\ Len(wire) = 2
    /\ wire[1].type = "player_status_update"
    /\ IsClassicInput(wire[2])
    /\ JustSettled
    /\ result.outcome.kind = "resolved"
    /\ \E m \in DOMAIN invocations : invocations[m].phase = "awaiting"

(***************************************************************************)
(* Reference notions for the sanitizer.                                    *)
(***************************************************************************)
\* the cell type a wire value stands for
CellOf(v) ==
    IF v \in {JSStr("WALL"), JSNum(0)} THEN WALL
    ELSE IF v \in {JSStr("BOX"), JSNum(2)} THEN BOX
    ELSE AIR

\* the flat cell list of a field payload: its field property when that is an
\* array, else the empty list
FlatOf(f) ==
    IF f.tag = "object" /\ "field" \in DOMAIN f.props
       /\ f.props.field.tag = "array"
    THEN f.props.field.items
    ELSE <<>>

\* flat element k, counted from 0; undefined when the list is too short
FlatAt(f, k) == IF k < Len(FlatOf(f)) THEN FlatOf(f)[k + 1] ELSE JSUndefined

\* cells is a grid of h rows of w cell types that holds, at row y and column
\* x, the cell type of flat element y * w + x of the field payload f
GridOf(cells, w, h, f) ==
    /\ DOMAIN cells = 0 .. h - 1
    /\ \A y \in 0 .. h - 1 :
          /\ DOMAIN cells[y] = 0 .. w - 1
          /\ \A x \in 0 .. w - 1 :
                /\ cells[y][x] \in CellType
                /\ cells[y][x] = CellOf(FlatAt(f, y * w + x))

\* the whole number of columns or rows a wire value asks for
WholeDim(v) ==
    IF v.tag = "number" /\ v.kind = "finite" /\ v.int >= 0 THEN v.int ELSE 0

PropOf(f, k) ==
    IF f.tag = "object" /\ k \in DOMAIN f.props THEN f.props[k] ELSE JSUndefined

(***************************************************************************)
(* C17: for every classic_state payload (the flat cell list missing, no    *)
(* array, shorter or longer than width * height; dimensions negative,      *)
(* fractional, NaN or infinite), the field that toGameState builds has a   *)
(* width and a height that are non-negative integers, and cells has        *)
(* exactly height rows of exactly width entries, each AIR, WALL or BOX,    *)
(* with cells[y][x] the decoding of flat element y * width + x.  to2dCells *)
(* alone builds the same grid for the dimensions of its field payload.     *)
(***************************************************************************)
C17_GridMatchesDimensions ==
    /\ (call.op = "toGameState" /\ ~threw(result)) =>
          /\ result.field.width \in Nat
          /\ result.field.height \in Nat
          /\ GridOf(result.field.cells, result.field.width,
                    result.field.height, PropOf(Arg(1), "field"))
    /\ call.op = "to2dCells" =>
          GridOf(result, WholeDim(PropOf(Arg(1), "width")),
                 WholeDim(PropOf(Arg(1), "height")), Arg(1))

\* a payload of width 2.5 and height 2 with a list of four cells gives a
\* 2 x 2 grid whose second row holds the third and fourth cell
C17_Witness ==
    /\ call.op = "toGameState"
    /\ ~threw(result)
    /\ PropOf(PropOf(Arg(1), "field"), "width") = JSHalf(2)
    /\ PropOf(PropOf(Arg(1), "field"), "height") = JSNum(2)
    /\ result.field.width = 2
    /\ result.field.cells[0][0] = WALL
    /\ result.field.cells[1][0] = BOX
    /\ result.field.cells[1][1] = AIR

(***************************************************************************)
(* C18: decodeCell maps the strings AIR, WALL, BOX to the cell types of    *)
(* the same name, the numbers 0, 1, 2 to WALL, AIR, BOX, and every other   *)
(* value (other numbers and strings, undefined, null, objects) to AIR; it  *)
(* has a value for every input.                                            *)
(***************************************************************************)
C18_DecodeCellTable ==
    call.op = "decodeCell" =>
        LET v == Arg(1)
        IN /\ v = JSStr("AIR") => result = AIR
           /\ v = JSStr("WALL") => result = WALL
           /\ v = JSStr("BOX") => result = BOX
           /\ v = JSNum(0) => result = WALL
           /\ v = JSNum(1) => result = AIR
           /\ v = JSNum(2) => result = BOX
           /\ v \notin {JSStr("AIR"), JSStr("WALL"), JSStr("BOX"),
                         JSNum(0), JSNum(1), JSNum(2)} => result = AIR

\* the number 0 decodes to WALL
C18_Witness ==
    /\ call.op = "decodeCell"
    /\ Arg(1) = JSNum(0)
    /\ result = WALL

(***************************************************************************)
(* C19: in every game state handed to the bot, me is present; when the     *)
(* payload has a player whose id is the clientId of the last valid welcome *)
(* message, me has that id; no opponent has the id of me; and every player *)
(* of the payload is among the opponents or has the id of me.  The id of a *)
(* payload player is its id property when that is a string, else the       *)
(* empty string.                                                           *)
(***************************************************************************)
IdOf(p) ==
    IF PropOf(p, "id").tag = "string" THEN PropOf(p, "id").str ELSE ""

C19_MeIsOwnPlayer ==
    \A m \in DOMAIN invocations :
        LET inv == invocations[m]
            st == inv.built
            raw == PropOf(inv.payload, "players").items
        IN /\ "me" \in DOMAIN st
           /\ \E i \in DOMAIN raw : IdOf(raw[i]) = st.me.id
           /\ (/\ inv.welcomed # <<>>
               /\ \E i \in DOMAIN raw : IdOf(raw[i]) = inv.welcomed[1])
              => st.me.id = inv.welcomed[1]
           /\ \A i \in DOMAIN st.opponents : st.opponents[i].id # st.me.id
           /\ \A i \in DOMAIN raw :
                 \/ IdOf(raw[i]) = st.me.id
                 \/ \E j \in DOMAIN st.opponents :
                       st.opponents[j].id = IdOf(raw[i])

\* after the welcome of client a, a payload that lists player b before
\* player a: me is a and b is the opponent
C19_Witness ==
    \E m \in DOMAIN invocations :
        /\ invocations[m].welcomed = <<"a">>
        /\ IdOf(PropOf(invocations[m].payload, "players").items[1]) = "b"
        /\ invocations[m].built.me.id = "a"
        /\ Len(invocations[m].built.opponents) = 1
        /\ invocations[m].built.opponents[1].id = "b"

(***************************************************************************)
(* C20: WsClient.send and WsClient.sendAction, called while there is no    *)
(* socket or the socket is not OPEN, transmit nothing, do not throw (they  *)
(* return undefined) and call no listener; and the envelope is dropped:    *)
(* the wire is the same after the socket opens.                            *)
(***************************************************************************)
C20_SendDropsUnlessOpen ==
    [][/\ (/\ call = NoCall
            /\ call'.op \in {"send", "sendAction"}
            /\ socket # OPEN)
           => /\ wire' = wire
              /\ notified' = <<>>
              /\ result' = JSUndefined
              /\ socket' = socket
       /\ (socket # OPEN /\ socket' = OPEN) => wire' = wire]_vars

\* send of a payload that can be serialised was called before the socket
\* opened; the socket is open now and nothing is on the wire
C20_Witness ==
    /\ call.op = "send"
    /\ Arg(2) # Circular
    /\ socket = OPEN
    /\ wire = <<>>

(***************************************************************************)
(* C21: WsClient.connect and WsClient.send do not throw to their caller    *)
(* (they return undefined).  When new WebSocket(...) fails, connect calls  *)
(* the onError listener, and attaches no handler: the socket and the       *)
(* handlers are as before, and a client without a socket has none.  When   *)
(* the payload cannot be serialised or transmitted on an open socket, send *)
(* calls the onError listener and transmits nothing.                       *)
(***************************************************************************)
C21_FailuresGoToOnError ==
    [][/\ (call = NoCall /\ call'.op \in {"connect", "send", "sendAction"})
           => result' = JSUndefined
       /\ (call = NoCall /\ call'.op = "connect" /\ call'.args = <<FALSE>>)
           => /\ notified' = <<"onError">>
              /\ socket' = socket
              /\ listening' = listening
       /\ socket' = NoSocket => listening' = {}
       /\ (/\ call = NoCall
            /\ call'.op = "send"
            /\ socket = OPEN
            /\ call'.args[2] \in {Circular, Unsendable})
           => /\ notified' = <<"onError">>
              /\ wire' = wire]_vars

\* connect() failed on a client without a socket: onError was called, there
\* is no socket and no handler
C21_Witness ==
    /\ call.op = "connect"
    /\ call.args = <<FALSE>>
    /\ result = JSUndefined
    /\ notified = <<"onError">>
    /\ socket = NoSocket
    /\ listening = {}

(***************************************************************************)
(* C22: when getNextActionTowards(start, target) returns a move, it is the *)
(* first, in the order up, right, down, left, of the moves whose neighbour *)
(* of start is walkable and one step nearer to target in shortest walk     *)
(* distance (the moves that begin a shortest path); and a second call with *)
(* the same state and arguments returns the same.                          *)
(***************************************************************************)
\* the moves that begin a shortest walk from start to target
ShortestFirstMoves(start, target) ==
    LET levels == IF Walkable(target) THEN WalkLevels({target}, {target}, 0)
                  ELSE <<>>
    IN { a \in Moves :
           \E d \in DOMAIN levels :
               /\ d >= 2
               /\ start \in levels[d]
               /\ Step(start, a) \in levels[d - 1] }

C22_TieBreakUpRightDownLeft ==
    (call.op = "getNextActionTowards" /\ result \in Moves) =>
        LET order == <<MOVE_UP, MOVE_RIGHT, MOVE_DOWN, MOVE_LEFT>>
            good == ShortestFirstMoves(Arg(1), Arg(2))
        IN /\ \E k \in 1 .. 4 :
                 /\ order[k] = result
                 /\ order[k] \in good
                 /\ \A j \in 1 .. k - 1 : order[j] \notin good
           /\ getNextActionTowards(Arg(1), Arg(2)) = result

\* two shortest paths begin with different moves, the later of which is left
C22_Witness ==
    /\ call.op = "getNextActionTowards"
    /\ MOVE_LEFT \in ShortestFirstMoves(Arg(1), Arg(2))
    /\ MOVE_DOWN \in ShortestFirstMoves(Arg(1), Arg(2))
    /\ MOVE_UP \notin ShortestFirstMoves(Arg(1), Arg(2))
    /\ result = MOVE_DOWN

(***************************************************************************)
(* C23: isWalkable(p) returns false for every position p with a finite     *)
(* coordinate that is no integer, also when p lies inside                  *)
(* [0, width) x [0, height) and no wall, box or bomb is around.            *)
(***************************************************************************)
C23_FractionNotWalkable ==
    (/\ call.op = "isWalkable"
     /\ IsUnknown(Arg(1))
     /\ ~Malformed(Arg(1))
     /\ \E k \in {"x", "y"} : Arg(1).props[k].half)
    => result = FALSE

(***************************************************************************)
(* C24: getNearestSafePosition(start) returns null exactly when start is   *)
(* not walkable (off the field, WALL, BOX, or a bomb on it) or no tile     *)
(* that can be walked to from start is safe; and when start is walkable    *)
(* and safe it returns start.                                              *)
(***************************************************************************)
C24_NullIffNoSafeTile ==
    call.op = "getNearestSafePosition" =>
        LET start == Arg(1)
        IN /\ result = NULL <=>
                 \/ ~Walkable(start)
                 \/ \A q \in WalkableTiles : Reachable(start, q) => ~Safe(q)
           /\ (Walkable(start) /\ Safe(start)) => result = <<start>>

\* start is walkable and tiles can be walked to from it, but the blast of a
\* bomb covers them all
C24_Witness ==
    /\ call.op = "getNearestSafePosition"
    /\ Walkable(Arg(1))
    /\ \E q \in WalkableTiles : q # Arg(1) /\ Reachable(Arg(1), q)
    /\ result = NULL

(***************************************************************************)
(* C25: in the message loop of run() at most one invocation of the bot is  *)
(* in flight at any time; no helper query is answered from the state of a  *)
(* classic_state message after a later classic_state message has been      *)
(* handed to the bot; and the actions are sent in the order of the states  *)
(* that produced them: an invocation is over only when every earlier one   *)
(* is.                                                                     *)
(***************************************************************************)
C25_OneInvocationInFlight ==
    /\ Cardinality({m \in DOMAIN invocations :
                        invocations[m].phase = "awaiting"}) <= 1
    /\ \A m \in DOMAIN invocations : call = Asked(m) => m = Len(invocations)
    /\ \A m, n \in DOMAIN invocations :
          (m < n /\ invocations[n].phase = "done")
              => invocations[m].phase = "done"

(***************************************************************************)
(* C26: in every step of the message loop of run(), at most one            *)
(* classic_input is transmitted, and only by the handler of a              *)
(* classic_state message going on after its bot; the bot is invoked only   *)
(* by a classic_state message.  A welcome, update_lobby, game_start or     *)
(* error message, a message of an unknown type and text that is no JSON    *)
(* transmit nothing and invoke no bot; a back_to_lobby message transmits   *)
(* exactly one player_status_update with isReady true and invokes no bot;  *)
(* a welcome whose clientId is no non-empty string leaves the stored id    *)
(* unchanged, another welcome stores its clientId.                         *)
(***************************************************************************)
C26_OnlyClassicStateAnswered ==
    [][/\ Len(wire') >= Len(wire)
       /\ SubSeq(wire', 1, Len(wire)) = wire
       /\ CountOf(Transmitted(wire'), IsClassicInput) <= 1
       /\ CountOf(Transmitted(wire'), IsClassicInput) = 1 =>
             /\ call'.op = "settled"
             /\ invocations'[call'.args[1]].phase = "done"
             /\ invocations'[call'.args[1]].payload \in RunPayloads
             /\ \/ call'.args[1] \notin DOMAIN invocations
                \/ invocations[call'.args[1]].phase = "awaiting"
       /\ invocations' # invocations /\ call'.op = "getNextMove" =>
             /\ received' = received + 1
             /\ Len(invocations') = Len(invocations) + 1
             /\ invocations'[Len(invocations')].payload \in RunPayloads
       /\ (received' = received + 1 /\ call'.op = "onMessage") =>
             LET type == call'.args[1]
                 payload == call'.args[2]
                 valid == /\ payload.tag = "object"
                          /\ payload.props.clientId.tag = "string"
                          /\ payload.props.clientId.str # ""
             IN /\ invocations' = invocations
                /\ heap' = heap
                /\ type \in IgnoredKinds \cup {"welcome"} => wire' = wire
                /\ type = "back_to_lobby" =>
                      /\ Transmitted(wire') =
                            <<[type |-> "player_status_update",
                               payload |-> [isReady |-> TRUE]]>>
                      /\ myId' = myId
                /\ type \in IgnoredKinds => myId' = myId
                /\ type = "welcome" =>
                      myId' = IF valid THEN payload.props.clientId.str
                              ELSE myId
      ]_vars

\* after a welcome that stored the id a, a welcome with an empty clientId
\* was handled: the id is still a and only the ready message is on the wire
C26_Witness ==
    /\ call = Handled("welcome", JSObj([clientId |-> JSStr("")]))
    /\ received = 2
    /\ myId = "a"
    /\ Len(wire) = 1
    /\ invocations = <<>>

\* the payload has no players: no players property, null, or an empty list
NoPlayers(payload) ==
    \/ "players" \notin DOMAIN payload.props
    \/ payload.props.players = JSNull
    \/ payload.props.players = JSArr(<<>>)

(***************************************************************************)
(* C27: a classic_state message whose payload has no players (the players  *)
(* property is missing, null or an empty list) makes toGameState throw the *)
(* error 'classic_state payload has no players'; the handler of run()      *)
(* catches it and returns: no bot is invoked for such a payload, nothing   *)
(* is transmitted, and the client is left as it was (socket, listeners,    *)
(* stored id, states and invocations), so later messages are handled as    *)
(* before.                                                                 *)
(***************************************************************************)
C27_NoPlayersIsSkipped ==
    [][/\ \A m \in DOMAIN invocations' : ~NoPlayers(invocations'[m].payload)
       /\ (received' = received + 1 /\ call'.op = "onMessage"
              /\ call'.args[1] = "classic_state") =>
             /\ NoPlayers(call'.args[2])
             /\ toGameState(call'.args[2], myId) = ThrownError(NoPlayersMessage)
             /\ result' = [caught |-> NoPlayersMessage]
             /\ UNCHANGED <<field, bombs, explosions, socket, wire, notified,
                            listening, userBot, myId, welcomed, heap,
                            invocations>>
      ]_vars

\* a payload without a players property was handled while an invocation
\* of an earlier message is awaiting its bot
C27_Witness ==
    /\ call.op = "onMessage"
    /\ call.args[1] = "classic_state"
    /\ "players" \notin DOMAIN call.args[2].props
    /\ result = [caught |-> NoPlayersMessage]
    /\ Len(invocations) = 1
    /\ invocations[1].phase = "awaiting"

\* the number v is finite and greater than 0
Positive(v) ==
    /\ v.tag = "number"
    /\ v.kind = "finite"
    /\ v.int > 0 \/ (v.int = 0 /\ v.half)

\* the greatest whole number that is at most v, for v > 0; 0 for every other
\* value
FloorOrZero(v) == IF Positive(v) THEN v.int ELSE 0

\* the elements of a wire value that is an array, none for another value
ItemsOf(v) == IF v.tag = "array" THEN v.items ELSE <<>>

\* pos is the sanitized form of the wire position w
Sanitized(pos, w) ==
    /\ pos.x \in Nat
    /\ pos.y \in Nat
    /\ pos.x = FloorOrZero(PropOf(w, "x"))
    /\ pos.y = FloorOrZero(PropOf(w, "y"))

(***************************************************************************)
(* C28: toNonNegativeInt(v) is floor(v) for a finite number v > 0 and 0    *)
(* for every other value (negative numbers, 0, NaN, the infinities, values *)
(* that are no number); toPosition gives both coordinates that way, and    *)
(* every position of a state built by toGameState (players, bombs,         *)
(* explosions) has coordinates that are non-negative integers, the floors  *)
(* of the wire coordinates whatever the dimensions of the field are.       *)
(***************************************************************************)
C28_FloorOfPositiveElseZero ==
    /\ call.op = "toNonNegativeInt" =>
          /\ result \in Nat
          /\ result = FloorOrZero(Arg(1))
    /\ call.op = "toPosition" => Sanitized(result, Arg(1))
    /\ (call.op = "toGameState" /\ ~threw(result)) =>
          LET rawPlayers == ItemsOf(PropOf(Arg(1), "players"))
              rawBombs == ItemsOf(PropOf(Arg(1), "bombs"))
              rawExplosions == ItemsOf(PropOf(Arg(1), "explosions"))
          IN /\ Len(result.players) = Len(rawPlayers)
             /\ \A i \in DOMAIN rawPlayers :
                   Sanitized(result.players[i].pos, PropOf(rawPlayers[i], "pos"))
             /\ \E i \in DOMAIN rawPlayers : result.me = result.players[i]
             /\ \A i \in DOMAIN result.opponents :
                   \E j \in DOMAIN rawPlayers :
                       result.opponents[i] = result.players[j]
             /\ Len(result.bombs) = Len(rawBombs)
             /\ \A i \in DOMAIN rawBombs :
                   Sanitized(result.bombs[i].pos, PropOf(rawBombs[i], "pos"))
             /\ Len(result.explosions) = Len(rawExplosions)
             /\ \A i \in DOMAIN rawExplosions :
                   Sanitized(result.explosions[i], rawExplosions[i])

\* the player at x = 1, y = 0.5 is placed on (1, 0) of a state whose field
\* has no columns
C28_Witness ==
    /\ call.op = "toGameState"
    /\ ~threw(result)
    /\ PropOf(PropOf(ItemsOf(PropOf(Arg(1), "players"))[1], "pos"), "y") = JSHalf(0)
    /\ result.me.pos = Position(1, 0)
    /\ result.field.width = 0

\* the tiles p and q share an edge
Adjacent(p, q) ==
    \/ (p.x = q.x /\ (p.y - q.y) \in {-1, 1})
    \/ (p.y = q.y /\ (p.x - q.x) \in {-1, 1})

(***************************************************************************)
(* C29: when findNearestBox(me) returns a box b that does not share an     *)
(* edge with the tile of me, the action getNextActionTowards(me, b) of the *)
(* Quick Start bot is one of the four moves, and not DO_NOTHING.           *)
(***************************************************************************)
C29_QuickStartMovesTowardBox ==
    (call.op = "quickStart" /\ ~Adjacent(Arg(1), Arg(2))) => result \in Moves

(***************************************************************************)
(* C30: isSafe(p) gives the same answer on a snapshot whose bombs are the  *)
(* same in another order, and on a snapshot that has one more bomb with a  *)
(* fuse > 0 on a tile that already holds a bomb; and a bomb is among the   *)
(* imminent ones exactly when a bomb on its tile has a fuse <= 0 or its    *)
(* tile is in the footprint of an imminent bomb on another tile, however   *)
(* many bombs the tile holds.                                              *)
(***************************************************************************)
C30_DuplicatesAndOrderIgnored ==
    /\ call.op = "isSafeAgain" => result = Arg(2)
    /\ call.op = "getImminentExplosionBombs" =>
          \A i \in DOMAIN bombs :
              bombs[i] \in Elems(result) <=>
                  \/ \E j \in DOMAIN bombs : /\ bombs[j].pos = bombs[i].pos
                                             /\ bombs[j].fuse <= 0
                  \/ \E r \in Elems(result) :
                         /\ r.pos # bombs[i].pos
                         /\ InFootprint(r.pos, bombs[i].pos)

\* a tile without a bomb stays unsafe when a bomb with a fuse > 0 joins a
\* bomb with fuse 0 whose footprint holds the tile
C30_Witness ==
    /\ call.op = "isSafeAgain"
    /\ Arg(3) = "doubled"
    /\ result = FALSE
    /\ InGrid(Arg(1))
    /\ ~BombAt(Arg(1))
    /\ \E i, j \in DOMAIN bombs :
          /\ i < j
          /\ bombs[i].pos = bombs[j].pos
          /\ bombs[i].fuse <= 0
          /\ bombs[j].fuse > 0
          /\ InFootprint(bombs[i].pos, Arg(1))
          /\ \A k \in DOMAIN bombs : bombs[k].pos = bombs[i].pos

=============================================================================
